---- MODULE Spec2Model ----
(***************************************************************************)
(* Model of the crack partitioning engine.                                 *)
(*                                                                         *)
(* Part 1: the Fiduccia-Mattheyses refiner for the cut objective on a      *)
(* bipartition (fm_part driving GainTableFMCutBipart under a               *)
(* ConstraintsImbalance object).                                           *)
(*                                                                         *)
(* Arithmetic.  The code works on normalized vertex weights w/total and    *)
(* on imbalances nbr_p*(W_p/total - 1/nbr_p), which are rationals whose    *)
(* denominator is total.  The model keeps every imbalance multiplied by    *)
(* the total of its criterion, so that it is the integer                   *)
(* nbr_p*W_p - total, and a tolerance is a rational num/den.  The          *)
(* comparison  imb + nbr_p*w/total > tol  of can_move is then the integer  *)
(* comparison  den*(imbS + nbr_p*w) > num*total.                           *)
(* Rounding of the floating point operations is not modelled in part 1.    *)
(*                                                                         *)
(* Part 2: the VN refiners vn_first_part and vn_best_part (with            *)
(* GainTableNumbersBipart), which balance vertex weights; their floats     *)
(* carry a rounding error (see part 2).                                    *)
(***************************************************************************)
EXTENDS Integers, Sequences, FiniteSets, TLC

\* ---------------------------------------------------------------- bounds
MaxEW == 1         \* largest edge weight (0 encodes "no edge")
MaxNW == 1         \* largest vertex weight

\* the inputs fm_part is run on
Sizes == {1, 2, 3}                          \* numbers of vertices
Tolerances == {[num |-> 0, den |-> 1], [num |-> 1, den |-> 3],
               [num |-> 2, den |-> 3], [num |-> 1, den |-> 1]}
BreakTies == {"first", "last", "random"}
StopInner == {[algo |-> "all_locked", nbr_moves |-> 1],
              [algo |-> "consecutive_negative_gain", nbr_moves |-> 2],
              [algo |-> "negative_gain", nbr_moves |-> 1]}

\* ------------------------------------------------------- program constant
NbrP == 2          \* GainTableFMCut.init: nbr_p == 2 picks the Bipart table


Max(S) == CHOOSE x \in S : \A y \in S : y <= x
Min(S) == CHOOSE x \in S : \A y \in S : x <= y

\* sum(f[0] .. f[n]), the sums of the code being taken in index order
RECURSIVE SumTo(_, _)
SumTo(f, n) == IF n < 0 THEN 0 ELSE SumTo(f, n - 1) + f[n]


\* ------------------------------------------------------------ data model
VARIABLES
    nbr_n,      \* number of vertices (graph["nbr_n"], partition["nbr_n"])
    nbr_p,      \* number of parts (algopt["nbr_p"], partition["nbr_p"])
    ewgts,      \* topology and edge weights: ewgts[<<i,j>>] > 0 iff edge {i,j}
    nwgts,      \* vertex weights: nwgts.weights[i][c] and nwgts.totals[c]
    tolerance,  \* constraints_args.tolerance, the rational num/den
    opts,       \* algopt: break_ties and stop_inner (algo, args.nbr_moves)
    input,      \* models[key_partition_in]["parts"]: the partition passed in
    parts,      \* models[key_partition_out]["parts"]: the active partition
    gt_obj,     \* fm_part's gt_obj: {} for None, else {the gain table object}
    recovery,   \* gt_obj.recovery: {} for None, else {the snapshot object}
    locks,      \* lock vector of the inner pass
    stats,      \* the stats dictionary
    pc,         \* position in fm_part
    vn,         \* the local variables and the gain table of a VN refiner
    pass,       \* history: what the current inner pass has seen
    last,       \* history: the last operation performed
    l_models,   \* multilevel: the stack of models, finest level first
    l_aggr,     \* multilevel: the stack of aggregations
    records     \* multilevel: records["levels"]

vars == <<nbr_n, nbr_p, ewgts, nwgts, tolerance, opts, input, parts, gt_obj,
          recovery, locks, stats, vn, pc, pass, last, l_models, l_aggr,
          records>>

\* the state of the multilevel operators, which a refiner leaves alone
ml == <<l_models, l_aggr, records>>

conf == <<nbr_n, nbr_p, ewgts, nwgts, tolerance, opts, input, vn, ml>>

Nodes == 0 .. (nbr_n - 1)
Parts == 0 .. (nbr_p - 1)
Crits == DOMAIN nwgts.totals
PairsOf(n) == {e \in (0 .. (n - 1)) \X (0 .. (n - 1)) : e[1] < e[2]}

SumNodes(f) == SumTo(f, nbr_n - 1)

\* --------------------------------------------------------------- topology
\* the edge {i,j} is keyed by its ordered pair
EdgeOf(i, j) == IF i < j THEN <<i, j>> ELSE <<j, i>>

IsNgbr(i, j) == i # j /\ ewgts[EdgeOf(i, j)] > 0

Ngbrs(i) == {j \in Nodes : IsNgbr(i, j)}

\* graph["nodes"][i][0]: the neighbours of i, listed by increasing edge id
\* (edges are numbered in lexicographic order, so by increasing neighbour)
RECURSIVE SortedSeq(_)
SortedSeq(S) ==
    IF S = {} THEN <<>>
    ELSE LET m == Min(S) IN <<m>> \o SortedSeq(S \ {m})

Adj(i) == SortedSeq(Ngbrs(i))

\* ----------------------------------------------------------- models/cut.py
\* the graph branch: the weights of the edges whose ends lie in different parts
cut_lambda_minus_one(p) ==
    SumNodes([i \in Nodes |-> SumNodes([j \in Nodes |->
        IF i < j /\ p[i] # p[j] THEN ewgts[<<i, j>>] ELSE 0])])

gain__cut_lambda_minus_one__graph(p, i, p_tgt) ==
    LET p_src == p[i]
        old == SumNodes([j \in Nodes |->
                  IF IsNgbr(i, j) /\ p[j] # p_src THEN ewgts[EdgeOf(i, j)] ELSE 0])
        new == SumNodes([j \in Nodes |->
                  IF IsNgbr(i, j) /\ p[j] # p_tgt THEN ewgts[EdgeOf(i, j)] ELSE 0])
    IN old - new

\* ----------------------------------------------------- models/imbalance.py
\* imbalances(), times totals[c]; targets are the even targets 1/nbr_p
imbalances(p) ==
    [c \in Crits |-> [q \in Parts |->
        nbr_p * SumNodes([i \in Nodes |->
                   IF p[i] = q THEN nwgts.weights[i][c] ELSE 0])
            - nwgts.totals[c]]]

can_move_first_criterion(imbs, i, p_src, p_tgt) ==
    tolerance.den * (imbs[0][p_tgt] + nbr_p * nwgts.weights[i][0])
        <= tolerance.num * nwgts.totals[0]

can_move(imbs, i, p_src, p_tgt) ==
    ~ \E c \in Crits :
        tolerance.den * (imbs[c][p_tgt] + nbr_p * nwgts.weights[i][c])
            > tolerance.num * nwgts.totals[c]

moved(imbs, i, p_src, p_tgt) ==
    [c \in Crits |-> [q \in Parts |->
        IF q = p_tgt /\ q = p_src THEN imbs[c][q]
        ELSE IF q = p_src THEN imbs[c][q] - nbr_p * nwgts.weights[i][c]
        ELSE IF q = p_tgt THEN imbs[c][q] + nbr_p * nwgts.weights[i][c]
        ELSE imbs[c][q]]]

\* ------------------------------------- algos/gain_tables/gain_table_cut.py
\* list.remove(i): drops the first occurrence of i
RECURSIVE SeqRemove(_, _)
SeqRemove(s, i) ==
    IF s = <<>> THEN <<>>
    ELSE IF Head(s) = i THEN Tail(s)
    ELSE <<Head(s)>> \o SeqRemove(Tail(s), i)

InSeq(s, i) == \E k \in 1 .. Len(s) : s[k] = i

\* gain_table[g].append(i) on a defaultdict(list): creates the key if absent
TableAppend(gain_table, g, i) ==
    IF g \in DOMAIN gain_table
    THEN [gain_table EXCEPT ![g] = Append(@, i)]
    ELSE [k \in (DOMAIN gain_table) \cup {g} |->
            IF k = g THEN <<i>> ELSE gain_table[k]]

\* GainTableFMCutBipart.init_gains: gains of vertices 0 .. n-1, in that order
RECURSIVE InitGainsFrom(_, _, _)
InitGainsFrom(p, i, t) ==
    IF i >= nbr_n THEN t
    ELSE LET g == gain__cut_lambda_minus_one__graph(p, i, 1 - p[i])
         IN InitGainsFrom(p, i + 1,
                [gain_nodes |-> [t.gain_nodes EXCEPT ![i] = g],
                 gain_table |-> TableAppend(t.gain_table, g, i)])

init_gains(p) ==
    InitGainsFrom(p, 0, [gain_nodes |-> [i \in Nodes |-> 0],
                         gain_table |-> [g \in {} |-> <<>>]])

\* GainTableFMCutBipart.clean_gains: delete the keys of empty buckets
clean_gains(gain_table) ==
    [g \in {k \in DOMAIN gain_table : gain_table[k] # <<>>} |-> gain_table[g]]

\* a change of gain that leaves the vertex in its old bucket as well
change_gain_keep_old(t, i, new_gain) ==
    LET old_gain == t.gain_nodes[i] IN
    IF old_gain = new_gain THEN t
    ELSE [t EXCEPT
            !.gain_nodes = [@ EXCEPT ![i] = new_gain],
            !.gain_table = TableAppend(@, new_gain, i)]

\* GainTableFMCutBipart.change_gain on t = [gain_nodes, gain_table]
change_gain(t, i, new_gain) ==
    LET old_gain == t.gain_nodes[i] IN
    IF old_gain = new_gain THEN t
    ELSE [t EXCEPT
            !.gain_nodes = [@ EXCEPT ![i] = new_gain],
            !.gain_table =
                TableAppend([@ EXCEPT ![old_gain] = SeqRemove(@, i)],
                            new_gain, i)]

\* the bipart update of a neighbour j of the moved vertex across edge e
NgbrGainOnce(gain_nodes, p, i, j, p_tgt) ==
    IF p[j] = p_tgt
    THEN gain_nodes[j] - ewgts[EdgeOf(i, j)]
    ELSE gain_nodes[j] + ewgts[EdgeOf(i, j)]

NgbrGain(gain_nodes, p, i, j, p_tgt) ==
    IF p[j] = p_tgt
    THEN gain_nodes[j] - 2 * ewgts[EdgeOf(i, j)]
    ELSE gain_nodes[j] + 2 * ewgts[EdgeOf(i, j)]

\* move, lines 254-266: new_gains = {i: -g} then the neighbours in adjacency
\* order; p is the partition after parts[i] = p_tgt; the new gains are all
\* computed from the gains before the move, then applied in insertion order
RECURSIVE ApplyGains(_, _, _)
ApplyGains(t, keys, new_gains) ==
    IF keys = <<>> THEN t
    ELSE ApplyGains(change_gain(t, Head(keys), new_gains[Head(keys)]),
                    Tail(keys), new_gains)

UpdateGainsKeepSign(t, p, i, g, p_tgt) ==
    LET new_gains == [j \in {i} \cup Ngbrs(i) |->
                        IF j = i THEN g
                        ELSE NgbrGain(t.gain_nodes, p, i, j, p_tgt)]
    IN ApplyGains(t, <<i>> \o Adj(i), new_gains)

UpdateGains(t, p, i, g, p_tgt) ==
    LET new_gains == [j \in {i} \cup Ngbrs(i) |->
                        IF j = i THEN -g
                        ELSE NgbrGain(t.gain_nodes, p, i, j, p_tgt)]
    IN ApplyGains(t, <<i>> \o Adj(i), new_gains)

\* the list comprehension of select__best_valid for the bucket of gain g
RECURSIVE CandidatesIgnoringLocks(_, _, _, _)
CandidatesIgnoringLocks(bucket, p, lk, imbs) ==
    IF bucket = <<>> THEN <<>>
    ELSE LET i == Head(bucket)
             rest == CandidatesIgnoringLocks(Tail(bucket), p, lk, imbs)
         IN IF can_move(imbs, i, p[i], 1 - p[i])
            THEN <<[i |-> i, p_src |-> p[i], p_tgt |-> 1 - p[i]]>> \o rest
            ELSE rest

RECURSIVE Candidates(_, _, _, _)
Candidates(bucket, p, lk, imbs) ==
    IF bucket = <<>> THEN <<>>
    ELSE LET i == Head(bucket)
             rest == Candidates(Tail(bucket), p, lk, imbs)
         IN IF ~lk[i] /\ can_move(imbs, i, p[i], 1 - p[i])
            THEN <<[i |-> i, p_src |-> p[i], p_tgt |-> 1 - p[i]]>> \o rest
            ELSE rest

ScanKeysTopOnly(lg, t, p, lk, imbs) ==
    IF lg = {} THEN [g |-> 0, l |-> <<>>]
    ELSE [g |-> Max(lg), l |-> Candidates(t.gain_table[Max(lg)], p, lk, imbs)]

\* select__best_valid (SORT_GAINS is False): scan the keys from the largest
\* down until a bucket yields a candidate; returns [g, l]
RECURSIVE ScanKeys(_, _, _, _, _)
ScanKeys(lg, t, p, lk, imbs) ==
    IF lg = {} THEN [g |-> 0, l |-> <<>>]
    ELSE LET g == Max(lg)
             l == Candidates(t.gain_table[g], p, lk, imbs)
         IN IF l # <<>> THEN [g |-> g, l |-> l]
            ELSE ScanKeys(lg \ {g}, t, p, lk, imbs)

select__best_valid(t, p, lk) ==
    ScanKeys(DOMAIN t.gain_table, t, p, lk, t.imbs)

\* break_ties__first / __last / __random: the positions of l that may be taken
break_ties(l) ==
    CASE opts.break_ties = "first" -> {1}
      [] opts.break_ties = "last" -> {Len(l)}
      [] OTHER -> 1 .. Len(l)

\* GainTableFMCutBipart.copy: the snapshot object; parts is the copy that
\* copy_Partition puts under models[_KEY_PARTS_RE]
\* a copy that duplicates the buckets and the constraints only: the
\* per-vertex gains and the partition array are those of the live table
copy_by_reference(t, p) ==
    [gain_nodes |-> t.gain_nodes, gain_table |-> t.gain_table,
     imbs |-> t.imbs, parts |-> p,
     own |-> {"gain_table", "imbs"}]

\* own names the attributes that are duplicates (gain_nodes[:], deepcopy of
\* gain_table, constraints.copy(), copy_Partition); every other attribute
\* of the snapshot is the object the live table holds
copy(t, p) ==
    [gain_nodes |-> t.gain_nodes, gain_table |-> t.gain_table,
     imbs |-> t.imbs, parts |-> p,
     own |-> {"gain_nodes", "gain_table", "imbs", "parts"}]

\* what the snapshot r holds while the live table is t and the active
\* partition p: its own duplicate of an attribute, or the live object
snapshot_of(r, t, p) ==
    [gain_nodes |-> IF "gain_nodes" \in r.own THEN r.gain_nodes
                    ELSE t.gain_nodes,
     gain_table |-> IF "gain_table" \in r.own THEN r.gain_table
                    ELSE t.gain_table,
     imbs |-> IF "imbs" \in r.own THEN r.imbs ELSE t.imbs,
     parts |-> IF "parts" \in r.own THEN r.parts ELSE p]

\* ------------------------------------------ algos/refine_algos/fm_fcts.py
stop__strict_improvement ==
    \E v \in stats.last_obj_value : v < stats.obj_value

stop__no_improvement ==
    \E v \in stats.last_obj_value : v <= stats.obj_value

\* the threshold stop__cng and stop__ng cache in stats on their first call
NbrMovesOf(nbr_moves) ==
    IF nbr_moves < 1 THEN nbr_moves * nbr_n ELSE nbr_moves

stop__after_first_move == stats.inner__moves_done >= 1

stop__all_locked == stats.inner__moves_done >= nbr_n

stop__cng == stats.inner__moves_neg_row >= NbrMovesOf(opts.stop_inner.nbr_moves)

stop__ng == stats.inner__moves_neg >= NbrMovesOf(opts.stop_inner.nbr_moves)

stop_inn ==
    CASE opts.stop_inner.algo = "all_locked" -> stop__all_locked
      [] opts.stop_inner.algo = "consecutive_negative_gain" -> stop__cng
      [] OTHER -> stop__ng

\* the gain table object fm_part holds (defined while gt_obj is not None)
self == CHOOSE t \in gt_obj : TRUE

NoLocks == [i \in Nodes |-> FALSE]

\* history of an inner pass that starts on partition p
NewPass(n, p) ==
    LET c == cut_lambda_minus_one(p)
    IN [n |-> n, parts |-> p, cut |-> c, min_cut |-> c, moved |-> {},
        twice |-> FALSE, snaps |-> 0, neg |-> FALSE, stale |-> recovery # {}]

NoMove == [i |-> 0, g |-> 0, rec |-> FALSE, first_neg |-> FALSE]

\* ------------------------------------------ algos/refine_algos/fm_part.py
\* the models and options fm_part is called with, and its stats dictionary
\* (lines 46-73; obj_value is None until the gain table is built)
Inputs(k, n, crits, eweights, nweights) ==
    /\ nbr_n = n
    /\ nbr_p = k
    /\ vn = <<>>
    /\ l_models = <<>>
    /\ l_aggr = <<>>
    /\ records = [levels |-> <<>>]
    /\ ewgts \in [PairsOf(n) -> eweights]
    /\ \E w \in [0 .. (n - 1) -> [crits -> nweights]] :
          nwgts = [weights |-> w,
                   totals |-> [c \in crits |->
                                 SumTo([i \in 0 .. (n - 1) |-> w[i][c]], n - 1)]]
    /\ input \in [0 .. (n - 1) -> Parts]
    /\ parts = input
    /\ gt_obj = {}
    /\ recovery = {}
    /\ locks = [i \in 0 .. (n - 1) |-> FALSE]
    /\ stats = [moves_done |-> 0, inner__moves_done |-> 0,
                inner__moves_neg |-> 0, inner__moves_neg_row |-> 0,
                obj_value |-> 0, best_obj_value |-> 0, last_obj_value |-> {}]
    /\ pc = "init"
    /\ pass = [n |-> 0, parts |-> parts, cut |-> 0, min_cut |-> 0,
               moved |-> {}, twice |-> FALSE, snaps |-> 0, neg |-> FALSE,
               stale |-> FALSE]
    /\ last = [op |-> "call", mv |-> NoMove]

\* fm_part called with nbr_p = 3 on the cycle of 6 vertices, unit edge and
\* vertex weights, a partition with two vertices in each part, the default
\* options
InitKWay ==
    /\ tolerance \in Tolerances
    /\ opts = [break_ties |-> "last",
               stop_inner |-> [algo |-> "all_locked", nbr_moves |-> 1]]
    /\ ewgts = [e \in PairsOf(6) |->
                  IF e[2] = e[1] + 1 \/ e = <<0, 5>> THEN 1 ELSE 0]
    /\ input \in {p \in [0 .. 5 -> 0 .. 2] :
                    \A q \in 0 .. 2 : Cardinality({i \in 0 .. 5 : p[i] = q}) = 2}
    /\ Inputs(3, 6, {0}, {0, 1}, {1})

Init ==
    \/ /\ tolerance \in Tolerances
       /\ opts \in [break_ties : BreakTies, stop_inner : StopInner]
       /\ \E n \in Sizes : Inputs(NbrP, n, {0}, 0 .. MaxEW, 1 .. MaxNW)
    \/ InitKWay

\* two balancing criteria, the default options (break_ties last, stop_inner
\* all_locked), unit edge weights
InitCriteria ==
    \/ InitKWay
    \/ /\ tolerance \in Tolerances
       /\ opts = [break_ties |-> "last",
                  stop_inner |-> [algo |-> "all_locked", nbr_moves |-> 1]]
       /\ Inputs(NbrP, 3, {0, 1}, {0, 1}, {1, 2})

\* the path 0-1-2-3 with unit edge and vertex weights, any input partition
InitPath ==
    \/ InitKWay
    \/ /\ tolerance \in Tolerances
       /\ opts \in [break_ties : BreakTies, stop_inner : StopInner]
       /\ ewgts = [e \in PairsOf(4) |-> IF e[2] = e[1] + 1 THEN 1 ELSE 0]
       /\ Inputs(NbrP, 4, {0}, {0, 1}, {1})

\* lines 76-79, GainTableFMCut.init and __init__ (gain_table_cut.py 57-142):
\* the constraints object, the gains, obj_value and best_obj_value
GainTableInit ==
    /\ pc = "init"
    /\ nbr_p = 2
    /\ gt_obj' = LET t == init_gains(parts)
                 IN {[gain_nodes |-> t.gain_nodes, gain_table |-> t.gain_table,
                      imbs |-> imbalances(parts)]}
    /\ stats' = [stats EXCEPT !.obj_value = cut_lambda_minus_one(parts),
                              !.best_obj_value = cut_lambda_minus_one(parts)]
    /\ pc' = "outer"
    /\ last' = [op |-> "init", mv |-> NoMove]
    /\ UNCHANGED <<conf, parts, recovery, locks, pass>>

\* lines 76-79 with nbr_p # 2: GainTableFMCut.init (gain_table_cut.py 65-80)
\* picks GainTableFMCutKPart, a class without __init__ (lines 363-382), and
\* calls it with four arguments: TypeError, raised out of fm_part
GainTableInitKPart ==
    /\ pc = "init"
    /\ nbr_p # NbrP
    /\ pc' = "error"
    /\ last' = [op |-> "raise", mv |-> NoMove]
    /\ UNCHANGED <<conf, parts, gt_obj, recovery, locks, stats, pass>>

\* line 82, stop_out fires: fm_part returns
OuterStop ==
    /\ pc = "outer"
    /\ stop__no_improvement
    /\ stats' = [stats EXCEPT !.last_obj_value = {stats.obj_value}]
    /\ pc' = "done"
    /\ last' = [op |-> "stop_out", mv |-> NoMove]
    /\ UNCHANGED <<conf, parts, gt_obj, recovery, locks, pass>>

\* lines 82-83, stop_out does not fire: a new inner pass starts
OuterPass ==
    /\ pc = "outer"
    /\ ~ stop__no_improvement
    /\ stats' = [stats EXCEPT !.last_obj_value = {stats.obj_value}]
    /\ locks' = NoLocks
    /\ pc' = "inner"
    /\ pass' = NewPass(pass.n + 1, parts)
    /\ last' = [op |-> "pass", mv |-> NoMove]
    /\ UNCHANGED <<conf, parts, gt_obj, recovery>>

\* line 84, stop_inn fires: the inner pass ends
InnerStop ==
    /\ pc = "inner"
    /\ stop_inn
    /\ pc' = "recover"
    /\ last' = [op |-> "stop_inn", mv |-> NoMove]
    /\ UNCHANGED <<conf, parts, gt_obj, recovery, locks, stats, pass>>

\* lines 85-87, move returns False (gain_table_cut.py 238-240): no candidate
MoveNone ==
    /\ pc = "inner"
    /\ ~ stop_inn
    /\ gt_obj # {}
    /\ select__best_valid(self, parts, locks).l = <<>>
    /\ pc' = "recover"
    /\ last' = [op |-> "no_move", mv |-> NoMove]
    /\ UNCHANGED <<conf, parts, gt_obj, recovery, locks, stats, pass>>

\* line 85, GainTableFMCutBipart.move (gain_table_cut.py 223-281) on the
\* candidate at position k of the list l that select__best_valid returned
MoveNode(sel, k) ==
    LET g == sel.g
        i == sel.l[k].i
        p_src == sel.l[k].p_src
        p_tgt == sel.l[k].p_tgt
        new_obj == stats.obj_value - g
        rec == g < 0 /\ new_obj < stats.best_obj_value
        new_parts == [parts EXCEPT ![i] = p_tgt]
        new_cut == cut_lambda_minus_one(new_parts)
        t == UpdateGains(self, new_parts, i, g, p_tgt)
    IN /\ recovery' = IF rec THEN {copy(self, parts)} ELSE recovery
       /\ parts' = new_parts
       /\ locks' = [locks EXCEPT ![i] = TRUE]
       /\ gt_obj' = {[t EXCEPT !.imbs = moved(@, i, p_src, p_tgt)]}
       /\ stats' = [stats EXCEPT
             !.best_obj_value = IF rec THEN stats.obj_value ELSE @,
             !.obj_value = new_obj,
             !.moves_done = @ + 1,
             !.inner__moves_done = @ + 1,
             !.inner__moves_neg = IF g <= 0 THEN @ + 1 ELSE @,
             !.inner__moves_neg_row = IF g <= 0 THEN @ + 1 ELSE 0]
       /\ pass' = [pass EXCEPT
             !.min_cut = IF new_cut < @ THEN new_cut ELSE @,
             !.moved = @ \cup {i},
             !.twice = @ \/ i \in pass.moved,
             !.snaps = IF rec THEN @ + 1 ELSE @,
             !.neg = @ \/ g < 0]
       /\ last' = [op |-> "move",
                   mv |-> [i |-> i, g |-> g, rec |-> rec,
                           first_neg |-> (g < 0 /\ ~ pass.neg)]]

Move ==
    /\ pc = "inner"
    /\ ~ stop_inn
    /\ gt_obj # {}
    /\ LET sel == select__best_valid(self, parts, locks)
       IN /\ sel.l # <<>>
          /\ \E k \in break_ties(sel.l) : MoveNode(sel, k)
    /\ pc' = "inner"
    /\ UNCHANGED conf

\* line 88, GainTableFMCut.recover_best (gain_table_cut.py 162-177): the
\* object it returns becomes gt_obj.  Line 174 writes stats["inner__moves"],
\* a key nothing reads, and inner__moves_done keeps its value.
recover_best ==
    IF stats.obj_value > stats.best_obj_value
    THEN /\ parts' = IF recovery # {}
                     THEN snapshot_of(CHOOSE r \in recovery : TRUE,
                                      self, parts).parts
                     ELSE parts
         /\ gt_obj' = {[gain_nodes |-> snapshot_of(r, self, parts).gain_nodes,
                        gain_table |-> snapshot_of(r, self, parts).gain_table,
                        imbs |-> snapshot_of(r, self, parts).imbs] :
                          r \in recovery}
         /\ recovery' = {}
         /\ stats' = [stats EXCEPT !.obj_value = stats.best_obj_value,
                                   !.inner__moves_neg = 0,
                                   !.inner__moves_neg_row = 0]
    ELSE /\ gt_obj' = {[self EXCEPT !.gain_table = clean_gains(@)]}
         /\ stats' = [stats EXCEPT !.inner__moves_neg = 0,
                                   !.inner__moves_neg_row = 0]
         /\ UNCHANGED <<parts, recovery>>

RecoverBest ==
    /\ pc = "recover"
    /\ gt_obj # {}
    /\ recover_best
    /\ pc' = "outer"
    /\ last' = [op |-> "recover", mv |-> NoMove]
    /\ UNCHANGED <<conf, locks, pass>>

Next ==
    \/ GainTableInit
    \/ GainTableInitKPart
    \/ OuterStop
    \/ OuterPass
    \/ InnerStop
    \/ MoveNone
    \/ Move
    \/ RecoverBest

Spec == Init /\ [][Next]_vars

SpecCriteria == InitCriteria /\ [][Next]_vars

SpecPath == InitPath /\ [][Next]_vars

\* ======================================================= FM refiner: claims
ActiveCut == cut_lambda_minus_one(parts)

\* a step of the model that is a call of move which moved a vertex
MoveStep == pc = "inner" /\ last'.op = "move"

\* a step of the model that is a call of recover_best
RecoverStep == pc = "recover" /\ last'.op = "recover"

\* imb[c][q] <= tol[c] for all c and q, on the imbalances of partition p
\* recomputed from scratch
WithinTol(p) ==
    \A c \in Crits : \A q \in Parts :
        tolerance.den * imbalances(p)[c][q] <= tolerance.num * nwgts.totals[c]

\* the vertices that are unlocked and admissible in the current state
Movable ==
    {i \in Nodes : ~ locks[i] /\ \A c \in Crits :
        tolerance.den * (self.imbs[c][1 - parts[i]] + nbr_p * nwgts.weights[i][c])
            <= tolerance.num * nwgts.totals[c]}

\* the keys of the buckets that hold vertex k
BucketsOf(t, k) == {g \in DOMAIN t.gain_table : InSeq(t.gain_table[g], k)}

\* position of vertex i in bucket b
PosIn(b, i) == CHOOSE x \in 1 .. Len(b) : b[x] = i

\* C1: after an inner pass and its recover_best, the active partition is the
\* partition the pass started from or its cut is strictly less than the cut
\* the pass started from.
C1_PassRestoresOrImproves ==
    last.op = "recover" => (parts = pass.parts \/ ActiveCut < pass.cut)

\* C2: after the recover_best of an inner pass, the cut of the active
\* partition is the minimum cut over the partitions visited in the pass (the
\* one at pass start and the one after each move).
C2_RecoveredCutIsPassMinimum ==
    last.op = "recover" => ActiveCut = pass.min_cut

\* C3: when recover_best is called with best_obj_value < obj_value, a
\* snapshot taken during this pass exists, and the active partition, the
\* constraint imbalances and the gain table of the next pass are its copies,
\* so that the cut of the active partition is best_obj_value.
C3_RestoreTakesPassSnapshot ==
    [][(RecoverStep /\ stats.best_obj_value < stats.obj_value) =>
         /\ pass.snaps > 0
         /\ recovery # {}
         /\ \A r \in recovery :
               /\ parts' = r.parts
               /\ gt_obj' = {[gain_nodes |-> r.gain_nodes,
                              gain_table |-> r.gain_table, imbs |-> r.imbs]}
         /\ cut_lambda_minus_one(parts') = stats.best_obj_value]_vars

\* C4: at the start of every inner pass best_obj_value equals obj_value.
C4_BaselineAtPassStart ==
    last.op = "pass" => stats.best_obj_value = stats.obj_value

\* C5: no snapshot exists at the start of an inner pass, and a move takes a
\* snapshot exactly when it is the first negative-gain move of the pass.
C5_SnapshotAtFirstWorseningMove ==
    /\ last.op = "pass" => recovery = {}
    /\ last.op = "move" => (last.mv.rec <=> last.mv.first_neg)

\* C6: the lock vector is all false at the start of an inner pass, the locked
\* vertices are exactly the vertices moved in the pass, and no vertex is
\* moved twice in a pass.
C6_LocksAreTheMovedVertices ==
    /\ [](last.op = "pass" => \A i \in Nodes : ~ locks[i])
    /\ [](pc \in {"inner", "recover"} =>
             /\ \A i \in Nodes : locks[i] <=> i \in pass.moved
             /\ ~ pass.twice)
    /\ [][MoveStep =>
             /\ ~ locks[last'.mv.i]
             /\ locks' = [locks EXCEPT ![last'.mv.i] = TRUE]]_vars

\* a move of the second or a later pass left a locked vertex of positive
\* gain that the constraint would let move back
C6_Witness ==
    /\ pc = "inner" /\ last.op = "move" /\ pass.n >= 2
    /\ \E i \in Nodes :
          /\ locks[i] /\ self.gain_nodes[i] > 0
          /\ can_move(self.imbs, i, parts[i], 1 - parts[i])

\* C7: a move is applied only to a vertex i with, for every criterion c,
\* imb[c][p_tgt] + nbr_p*w[i][c] <= tol[c]; and when the input partition has
\* imb[c][p] <= tol[c] for all c and p, so has the active partition after
\* every move and after every recover_best.
C7_MovesAreAdmissible ==
    [][/\ MoveStep =>
            LET i == last'.mv.i
                p_tgt == parts'[i]
            IN /\ parts[i] # p_tgt
               /\ \A c \in Crits :
                     tolerance.den *
                        (self.imbs[c][p_tgt] + nbr_p * nwgts.weights[i][c])
                     <= tolerance.num * nwgts.totals[c]
       /\ WithinTol(input) => WithinTol(parts')]_vars

\* after a move from a valid input, an unlocked vertex is admissible for
\* criterion 0 and inadmissible for criterion 1
C7_Witness ==
    /\ pc = "inner" /\ last.op = "move" /\ WithinTol(input)
    /\ Crits = {0, 1}
    /\ \E i \in Nodes :
          /\ ~ locks[i]
          /\ tolerance.den * (self.imbs[0][1 - parts[i]] + nbr_p * nwgts.weights[i][0])
                <= tolerance.num * nwgts.totals[0]
          /\ tolerance.den * (self.imbs[1][1 - parts[i]] + nbr_p * nwgts.weights[i][1])
                > tolerance.num * nwgts.totals[1]

\* C8: a move of vertex m with applied gain g leaves gain_of[m] = -g, and
\* leaves the gain and the bucket of every vertex that is neither m nor
\* adjacent to m as they were.
C8_MoveUpdatesOnlyNeighbourhood ==
    [][MoveStep =>
         LET m == last'.mv.i
             g == stats.obj_value - stats'.obj_value
             new == CHOOSE t \in gt_obj' : TRUE
         IN /\ parts'[m] # parts[m]
            /\ new.gain_nodes[m] = - g
            /\ BucketsOf(new, m) = {- g}
            /\ \A k \in Nodes \ ({m} \cup Ngbrs(m)) :
                  /\ new.gain_nodes[k] = self.gain_nodes[k]
                  /\ BucketsOf(new, k) = BucketsOf(self, k)]_vars

\* a move of nonzero gain of a vertex that has a neighbour and a non-neighbour
C8_Witness ==
    /\ last.op = "move" /\ last.mv.g # 0
    /\ Ngbrs(last.mv.i) # {}
    /\ Nodes \ ({last.mv.i} \cup Ngbrs(last.mv.i)) # {}

\* C9: whenever a gain table exists (after initialisation, after every move
\* and after every recover_best), gain_of[i] is the cut gain of moving i to
\* the other part recomputed from scratch on the active partition.
C9_GainsAreExact ==
    gt_obj # {} =>
        \A i \in Nodes :
            self.gain_nodes[i] =
                gain__cut_lambda_minus_one__graph(parts, i, 1 - parts[i])

\* recover_best has restored the snapshot of a pass that moved a vertex with
\* neighbours
C9_Witness ==
    /\ last.op = "recover" /\ gt_obj # {}
    /\ pass.snaps > 0 /\ recovery = {}
    /\ parts # pass.parts
    /\ \E i \in pass.moved : Ngbrs(i) # {}

\* C10: when move is called, if some vertex is unlocked and admissible, the
\* vertex moved is one of those of maximum gain_of among them (the first or
\* the last of them in bucket order for break_ties first or last) and the
\* applied gain is that maximum; if none is, the pass ends and partition,
\* gains, locks, constraint state and counters are unchanged.
C10_BestValidSelection ==
    [][(pc = "inner" /\ ~ stop_inn /\ gt_obj # {}) =>
         IF Movable = {}
         THEN pc' = "recover" /\ UNCHANGED <<parts, gt_obj, locks, stats, recovery>>
         ELSE LET gmax == Max({self.gain_nodes[i] : i \in Movable})
                  tied == {i \in Movable : self.gain_nodes[i] = gmax}
                  b == self.gain_table[gmax]
                  m == last'.mv.i
              IN /\ last'.op = "move"
                 /\ m \in tied
                 /\ parts' = [parts EXCEPT ![m] = 1 - parts[m]]
                 /\ stats'.obj_value = stats.obj_value - gmax
                 /\ opts.break_ties = "first" =>
                       \A j \in tied : PosIn(b, m) <= PosIn(b, j)
                 /\ opts.break_ties = "last" =>
                       \A j \in tied : PosIn(b, m) >= PosIn(b, j)]_vars

\* move is about to be called where a vertex of larger gain is locked or
\* inadmissible and two admissible unlocked vertices tie at the best gain
C10_Witness ==
    /\ pc = "inner" /\ ~ stop_inn /\ gt_obj # {}
    /\ Movable # {}
    /\ LET gmax == Max({self.gain_nodes[i] : i \in Movable})
       IN /\ \E i \in Nodes \ Movable : self.gain_nodes[i] > gmax
          /\ Cardinality({i \in Movable : self.gain_nodes[i] = gmax}) >= 2

\* the number of steps fm_part may still take: the passes left, of which
\* there are at most cut(input) + 2, each of at most nbr_n moves
PassSteps == nbr_n + 3
PassBudget == cut_lambda_minus_one(input) + 2
Rank ==
    CASE pc = "init" -> (PassBudget + 1) * PassSteps + 1
      [] pc = "outer" -> (PassBudget - pass.n) * PassSteps + 1
      [] pc = "inner" -> (PassBudget - pass.n) * PassSteps + 1
                            + 2 + (nbr_n - Cardinality(pass.moved))
      [] pc = "recover" -> (PassBudget - pass.n) * PassSteps + 1 + 1
      [] OTHER -> 0

\* C11: fm_part for a bipartition terminates: every step of the run lowers a natural number
\* that counts the passes left (at most cut(input) + 2, a new pass starting
\* only when obj_value fell below its value at the previous pass start) and
\* the moves left in the pass (at most nbr_n, no vertex moving twice), and
\* neither move nor recover_best is ever called on a missing gain table.
C11_FmPartTerminates ==
    /\ [](nbr_p = NbrP => pc # "error")
    /\ [](Rank \in Nat /\ (Rank = 0 <=> pc \in {"done", "error"}))
    /\ [][Rank' < Rank]_vars
    /\ [](pc \in {"inner", "recover"} =>
             gt_obj # {} /\ ~ pass.twice /\ Cardinality(pass.moved) <= nbr_n)

\* fm_part has returned from a second or later pass whose recover_best gave
\* back no gain table
C11_Witness ==
    /\ pc = "done" /\ gt_obj = {}
    /\ nbr_n >= 3 /\ pass.n >= 2

\* the vertices that the first call of move may take in a pass that starts
\* on partition p with nothing carried from earlier passes: the table of
\* init_gains(p), the imbalances of p, no lock, counters at zero
FirstMoveOfFreshPass(p) ==
    LET t == init_gains(p)
        sel == ScanKeys(DOMAIN t.gain_table, t, p, NoLocks, imbalances(p))
    IN IF sel.l = <<>> THEN {} ELSE {sel.l[k].i : k \in break_ties(sel.l)}

\* C12: an inner pass depends on earlier passes through the active partition
\* only: the first thing a pass does (which vertex it moves, or that it
\* moves none) is what a pass of a fresh run started on the same partition
\* does.
C12_PassDependsOnPartitionOnly ==
    [][last.op = "pass" =>
         IF FirstMoveOfFreshPass(parts) = {}
         THEN last'.op # "move"
         ELSE last'.op = "move" /\ last'.mv.i \in FirstMoveOfFreshPass(parts)]_vars

\* C13: with stop_inner all_locked the predicate fires, in the first and in
\* every later inner pass, only when every vertex is locked in that pass.
C13_AllLockedFiresWhenAllLocked ==
    (opts.stop_inner.algo = "all_locked" /\ pc = "inner" /\ stop_inn) =>
        \A i \in Nodes : locks[i]

\* C14: after initialisation, after every move and after every recover_best,
\* stats obj_value is the cut of the active partition.
C14_ObjValueIsTheCut ==
    pc # "init" => stats.obj_value = cut_lambda_minus_one(parts)

\* fm_part has returned from the run on the path 0-1-2-3 started on
\* [0,1,0,1] (cut 3) with tolerance 1.0 and stop_inner all_locked
PathScenarioDone ==
    /\ pc = "done"
    /\ nbr_n = 4
    /\ input = [i \in 0 .. 3 |-> i % 2]
    /\ tolerance = [num |-> 1, den |-> 1]
    /\ opts.stop_inner.algo = "all_locked"

\* C15 (as stated): on the path 0-1-2-3, unit weights, parts [0,1,0,1],
\* tolerance 1.0, fm_part returns a partition of cut 1.
C15_PathEndsWithCutOne ==
    PathScenarioDone => cut_lambda_minus_one(parts) = 1

\* C15 (amended): on the path 0-1-2-3, unit weights, parts [0,1,0,1],
\* tolerance 1.0, stop_inner all_locked, fm_part returns a partition of cut
\* 0 with all four vertices in one part, and obj_value is 0.
C15_PathEndsWithCutZero ==
    PathScenarioDone =>
        /\ cut_lambda_minus_one(parts) = 0
        /\ stats.obj_value = 0
        /\ \A i \in Nodes : parts[i] = parts[0]

\* the run of the scenario with the default tie-break has returned, after
\* two passes and four moves
C15_Witness ==
    /\ PathScenarioDone
    /\ opts.break_ties = "last"
    /\ pass.n = 2 /\ stats.moves_done = 4

\* C16: on a graph with no edges the cut is 0 throughout and fm_part
\* performs no move: moves_done stays 0 and the active partition stays the
\* input partition.
C16_EdgelessGraphIsLeftAlone ==
    (\A e \in DOMAIN ewgts : ewgts[e] = 0) =>
        /\ cut_lambda_minus_one(parts) = 0
        /\ stats.moves_done = 0
        /\ parts = input

\* C17: fm_part called with nbr_p = 3 on the cycle of 6 vertices (unit
\* weights), parts [0,1,2,0,1,2], tolerance 0.0, raises no error, and when
\* it has returned the partition is the input partition, of cut 6.
C17_KWayCycleIsRefined ==
    (/\ nbr_p = 3 /\ nbr_n = 6
     /\ input = [i \in 0 .. 5 |-> i % 3]
     /\ tolerance = [num |-> 0, den |-> 1]) =>
        /\ pc # "error"
        /\ pc = "done" => (parts = input /\ cut_lambda_minus_one(parts) = 6)

\* ================================================= Part 2: the VN refiners
(***************************************************************************)
(* vn_first_part and vn_best_part move vertices between parts to lower     *)
(* the imbalance of the vertex weights; the graph plays no role.           *)
(*                                                                         *)
(* Arithmetic.  Both refiners keep a table of imbalances in Python floats  *)
(* and update it in place at every move (imbs[c][p] -= nbr_p*w, ...), and  *)
(* they decide with a strict comparison of two such floats.  The value a   *)
(* float holds is the exact rational plus the rounding error accumulated   *)
(* by the operations that produced it, and that error decides every        *)
(* comparison of two floats whose exact values are equal.  The model       *)
(* keeps a float as a pair [x, e]: x is the exact value multiplied by the  *)
(* product of the totals of all criteria (an integer), e is the sign of    *)
(* the rounding error (-1, 0 or 1 unit in the last place).  A value that   *)
(* is computed afresh gets an arbitrary rounding error; a comparison is    *)
(* the lexicographic comparison of the pairs.  With several criteria only  *)
(* the roundings that are the same for every criterion are explored.       *)
(***************************************************************************)
Errs == {-1, 0, 1}

Fl(x, e) == [x |-> x, e |-> e]

FLess(a, b) == a.x < b.x \/ (a.x = b.x /\ a.e < b.e)

\* max() of a non-empty set of floats
FMax(S) == CHOOSE a \in S : \A b \in S : ~ FLess(a, b)

RECURSIVE ProdTo(_, _)
ProdTo(f, n) == IF n < 0 THEN 1 ELSE ProdTo(f, n - 1) * f[n]

\* models/imbalance.py init_even_targets: the target 1/nbr_p for every
\* part and criterion; a targets matrix is kept as the numerators num[c][p]
\* over one denominator den, a multiple of nbr_p
init_even_targets ==
    [num |-> [c \in Crits |-> [q \in Parts |-> 1]], den |-> nbr_p]

\* the targets a refiner is called with: algopt's "targets", or None, which
\* stands for the even targets
targets_given == "targets" \in DOMAIN opts

targets == IF targets_given THEN opts.targets ELSE init_even_targets

RECURSIVE ProdOver(_, _)
ProdOver(S, f) ==
    IF S = {} THEN 1
    ELSE LET x == CHOOSE y \in S : TRUE IN f[x] * ProdOver(S \ {x}, f)

\* the factor that makes every quotient by a target an integer: 1 for the
\* even targets
TargetsFactor ==
    IF targets_given
    THEN (targets.den \div nbr_p)
           * ProdOver(Crits \X Parts,
                      [cq \in Crits \X Parts |-> targets.num[cq[1]][cq[2]]])
    ELSE 1

\* the factor that brings a normalized weight of criterion c (w/totals[c])
\* to the common denominator of all criteria
Scale(c) ==
    TargetsFactor
      * ProdTo([d \in Crits |-> IF d = c THEN 1 ELSE nwgts.totals[d]],
               Cardinality(Crits) - 1)

\* the weight of part q of partition p for criterion c
part_wght(p, q, c) ==
    SumNodes([i \in Nodes |-> IF p[i] = q THEN nwgts.weights[i][c] ELSE 0])

\* models/imbalance.py imbalances with a targets matrix: the exact value of
\* nbr_p * (pwgt/tots[c] - tgt), in the unit of the float pairs
imbalances_with_targets(p) ==
    [c \in Crits |-> [q \in Parts |->
        (nbr_p * (part_wght(p, q, c) * targets.den
                    - nwgts.totals[c] * targets.num[c][q]) * Scale(c))
           \div targets.den]]

\* vn_best_part.py init_unbal (lines 154-166) on the part weights of
\* partition p: the exact value of (w - wtgt) / wtgt
init_unbal(p) ==
    [q \in Parts |-> [c \in Crits |->
        ((part_wght(p, q, c) * targets.den
            - nwgts.totals[c] * targets.num[c][q]) * Scale(c))
           \div targets.num[c][q]]]

\* models/weights.py init_Weights_normalized: wc / tot_c
wnorm(i, c) == nwgts.weights[i][c] * Scale(c)

\* the aggregate imbalance of a partition, max over c and p of imb(c,p), as
\* an exact number (times the common denominator)
aggregate(p) ==
    Max({imbalances(p)[c][q] * Scale(c) : c \in Crits, q \in Parts})

\* -------------------------------------------- operators/iterators.py (parts)
\* the target parts tried for a vertex of p_src, in order: iter_bipart
\* yields the other part; iter_parts_first_cycle goes round from last_p_tgt
\* and stops before the part preceding it
iter_parts(p_src, last_p_tgt) ==
    IF nbr_p = 2
    THEN << 1 - p_src >>
    ELSE [k \in 1 .. (nbr_p - 1) |-> (last_p_tgt + k - 1) % nbr_p]

\* ---------------------------------- models/imbalance.py (after a VN move)
\* imbalances_after_move on the float table; d[c] holds the rounding of the
\* two updated cells
imbalances_after_move(i, p_src, p_tgt, imbs, d) ==
    [c \in Crits |->
        LET a == [imbs[c] EXCEPT
                    ![p_src] = Fl(@.x - nbr_p * wnorm(i, c), d[c].src)]
        IN  [a EXCEPT ![p_tgt] = Fl(@.x + nbr_p * wnorm(i, c), d[c].tgt)]]

\* max(max(imb_cp) for imb_cp in imbs)
max_imb(imbs) == FMax({imbs[c][q] : c \in Crits, q \in Parts})

\* the roundings of the cells of p_src and p_tgt a move updates
Roundings ==
    {[c \in Crits |-> r] : r \in [src : Errs, tgt : Errs]}

\* the roundings of the cells of a table computed from the part weights
InitRoundings(prts) ==
    {[c \in Crits |-> r] : r \in [prts -> Errs]}

\* ------------------------------------ algos/refine_algos/vn_first_part.py
\* lines 74-87: the counters, the two iterators and the imbalance table;
\* tested records the vertices the loop has tested since the last move
VnFirstInit ==
    /\ pc = "init"
    /\ \E e0 \in InitRoundings(Parts) :
          LET imbs == [c \in Crits |-> [q \in Parts |->
                          Fl(imbalances(parts)[c][q] * Scale(c), e0[c][q])]]
          IN  vn' = [algo |-> "first", imbs |-> imbs, imb |-> max_imb(imbs),
                     i |-> 0, end |-> nbr_n - 1, moves_done |-> 0,
                     moves_tslm |-> 0, last_p_tgt |-> nbr_p - 1,
                     tested |-> {}]
    /\ pc' = IF 0 = nbr_n - 1 THEN "done" ELSE "vnf"
    /\ last' = [op |-> "vn_init", mv |-> NoMove]
    /\ UNCHANGED <<ml, nbr_n, nbr_p, ewgts, nwgts, tolerance, opts, input, parts,
                   gt_obj, recovery, locks, stats, pass>>

\* the test of line 101 on the table imbalances_after_move returns for
\* the move of vertex i to p_tgt under the roundings d
accepts(i, p_tgt, d) ==
    FLess(max_imb(imbalances_after_move(i, parts[i], p_tgt, vn.imbs, d)),
          vn.imb)

\* the test of line 101 can fail for the move of vertex i to p_tgt
rejects(i, p_tgt) == {d \in Roundings : ~ accepts(i, p_tgt, d)} # {}

\* one iteration of the loop of lines 93-114 on the vertex the node
\* iterator yields, and the iterator's step to the next vertex
\* (iter_nodes_first_cycle lines 29-36): the vertex moves to the first
\* target part that passes the test, or stays if none does
VnFirstIter ==
    /\ pc = "vnf"
    /\ LET i == vn.i
           seq == iter_parts(parts[i], vn.last_p_tgt)
           nxt == (i + 1) % nbr_n
       IN  \/ /\ \A k \in DOMAIN seq : rejects(i, seq[k])
              /\ vn' = [vn EXCEPT !.moves_tslm = @ + 1, !.i = nxt,
                                  !.tested = @ \cup {i}]
              /\ last' = [op |-> "vn_test", mv |-> NoMove]
              /\ pc' = IF vn.moves_tslm + 1 > nbr_n \/ nxt = vn.end
                       THEN "done" ELSE "vnf"
              /\ UNCHANGED parts
           \/ \E k \in DOMAIN seq, d \in Roundings :
                 LET p_tgt == seq[k]
                     new_imbs == imbalances_after_move(i, parts[i], p_tgt,
                                                       vn.imbs, d)
                 IN  /\ accepts(i, p_tgt, d)
                     /\ \A j \in 1 .. (k - 1) : rejects(i, seq[j])
                     /\ parts' = [parts EXCEPT ![i] = p_tgt]
                     /\ vn' = [vn EXCEPT !.imbs = new_imbs,
                                         !.imb = max_imb(new_imbs),
                                         !.moves_done = @ + 1,
                                         !.moves_tslm = 0,
                                         !.last_p_tgt = p_tgt,
                                         !.end = i, !.i = nxt,
                                         !.tested = {}]
                     /\ last' = [op |-> "vn_move",
                                 mv |-> [NoMove EXCEPT !.i = i]]
                     /\ pc' = IF nxt = i THEN "done" ELSE "vnf"
    /\ UNCHANGED <<ml, nbr_n, nbr_p, ewgts, nwgts, tolerance, opts, input,
                   gt_obj, recovery, locks, stats, pass>>

\* ------------------------------------- algos/refine_algos/vn_best_part.py
\* GainTableNumbersBipart.  A gain is None ({}) or a float ({g}); the cells
\* of gains[p][c] are the pairs (index, gain) in increasing weight order.
F0 == Fl(0, 0)

FNeg(a) == Fl(- a.x, - a.e)

FMin(a, b) == IF FLess(b, a) THEN b ELSE a

Positions == 0 .. (nbr_n - 1)

\* init_gains lines 531-539: sorted(range(nbr_n), key=wghts[i][c]) is
\* stable, so equal weights stay in index order
wposn(c, i) ==
    Cardinality({j \in Nodes :
        \/ nwgts.weights[j][c] < nwgts.weights[i][c]
        \/ (nwgts.weights[j][c] = nwgts.weights[i][c] /\ j < i)})

wsort(c, pos) == CHOOSE i \in Nodes : wposn(c, i) = pos

\* the running maximum of update_umax (lines 173-185) and of
\* compute_unbal_after_move (lines 576-595): a cell replaces the current
\* maximum only when it is strictly greater; cells is the sequence of
\* [u, c, p] in the order the code visits them
RECURSIVE scan_umax(_, _)
scan_umax(cells, k) ==
    IF k = 0 THEN [umax |-> F0, cumax |-> 0, pumax |-> 0]
    ELSE LET m == scan_umax(cells, k - 1)
         IN  IF FLess(m.umax, cells[k].u)
             THEN [umax |-> cells[k].u, cumax |-> cells[k].c,
                   pumax |-> cells[k].p]
             ELSE m

NbrC == Cardinality(Crits)

update_umax(unbal) ==
    scan_umax([k \in 1 .. (2 * NbrC) |->
                 LET q == (k - 1) \div NbrC
                     c == (k - 1) % NbrC
                 IN  [u |-> unbal[q][c], c |-> c, p |-> q]],
              2 * NbrC)

\* compute_gain with the test  2*max(wghts) < umax  in place of
\* max(wghts) < umax
compute_gain_half_umax(index, c, p, unbal, umax) ==
    IF FLess(Fl(2 * Max({wnorm(index, d) : d \in Crits}), 0), umax)
    THEN LET w == wnorm(index, c)
             u == FNeg(unbal[p][c])
         IN  IF FLess(u, F0) THEN {Fl(- 2 * w, 0)}
             ELSE IF FLess(Fl(2 * w, 0), u) THEN {Fl(2 * w, 0)}
             ELSE {Fl(2 * (u.x - w), u.e)}
    ELSE {}

compute_gain(index, c, p, unbal, umax) ==
    IF FLess(Fl(Max({wnorm(index, d) : d \in Crits}), 0), umax)
    THEN LET w == wnorm(index, c)
             u == FNeg(unbal[p][c])
         IN  IF FLess(u, F0) THEN {Fl(- 2 * w, 0)}
             ELSE IF FLess(Fl(2 * w, 0), u) THEN {Fl(2 * w, 0)}
             ELSE {Fl(2 * (u.x - w), u.e)}
    ELSE {}

\* give_gain of update_gains (lines 742-744), also the cell init_gains
\* writes (lines 541-548)
give_gain(index, c, p, prt, unbal, umax) ==
    [index |-> index,
     gain |-> IF prt[index] # p THEN compute_gain(index, c, p, unbal, umax)
              ELSE {}]

\* init_gains lines 536-547: the inflexion point is the last position
\* whose gain is not None and not below the best gain met so far
RECURSIVE init_inflx(_, _)
init_inflx(row, pos) ==
    IF pos < 0 THEN [inflx |-> 0, bestg |-> F0]
    ELSE LET m == init_inflx(row, pos - 1)
         IN  IF row[pos].gain # {} /\
                \E g \in row[pos].gain : ~ FLess(g, m.bestg)
             THEN [inflx |-> pos,
                   bestg |-> CHOOSE g \in row[pos].gain : TRUE]
             ELSE m

init_gains_vn(prt, unbal, umax) ==
    [q \in {0, 1} |-> [c \in Crits |-> [pos \in Positions |->
        give_gain(wsort(c, pos), c, q, prt, unbal, umax)]]]

\* compute_unbal_after_move with u -/+ wc in place of u -/+ 2*wc
compute_unbal_after_move_once(index, p_src, p_tgt, unbal, d) ==
    LET new_u == [q \in {0, 1} |-> [c \in Crits |->
                    IF q = p_src
                    THEN Fl(unbal[q][c].x - wnorm(index, c), d[c].src)
                    ELSE Fl(unbal[q][c].x + wnorm(index, c), d[c].tgt)]]
        m == scan_umax([k \in 1 .. (2 * NbrC) |->
                          LET c == (k - 1) \div 2
                              q == IF (k - 1) % 2 = 0 THEN p_src ELSE p_tgt
                          IN  [u |-> new_u[q][c], c |-> c, p |-> q]],
                       2 * NbrC)
    IN  [index |-> {index}, umax |-> m.umax, cumax |-> m.cumax,
         pumax |-> m.pumax, unbals |-> new_u]

compute_unbal_after_move(index, p_src, p_tgt, unbal, d) ==
    LET new_u == [q \in {0, 1} |-> [c \in Crits |->
                    IF q = p_src
                    THEN Fl(unbal[q][c].x - 2 * wnorm(index, c), d[c].src)
                    ELSE Fl(unbal[q][c].x + 2 * wnorm(index, c), d[c].tgt)]]
        m == scan_umax([k \in 1 .. (2 * NbrC) |->
                          LET c == (k - 1) \div 2
                              q == IF (k - 1) % 2 = 0 THEN p_src ELSE p_tgt
                          IN  [u |-> new_u[q][c], c |-> c, p |-> q]],
                       2 * NbrC)
    IN  [index |-> {index}, umax |-> m.umax, cumax |-> m.cumax,
         pumax |-> m.pumax, unbals |-> new_u]

\* update_positions of find_move (lines 653-698) on the row
\* gains[p_tgt][cumax]; best_gain is None ({}) or a position
update_positions(row, umax, cumax, pd) ==
    LET l == nbr_n
        NotNone(j) == row[j].gain # {}
        inf == IF pd.inf < 0 \/ pd.sup > l - 1 THEN pd.inf
               ELSE IF \E j \in 0 .. pd.inf : NotNone(j)
                    THEN Max({j \in 0 .. pd.inf : NotNone(j)}) ELSE -1
        sup == IF pd.inf < 0 \/ pd.sup > l - 1 THEN pd.sup
               ELSE IF \E j \in pd.sup .. (l - 1) : NotNone(j)
                    THEN Min({j \in pd.sup .. (l - 1) : NotNone(j)}) ELSE l
        move_sup ==
            IF pd.inf < 0
            THEN pd.sup < l /\
                 FLess(Fl(wnorm(row[pd.sup].index, cumax), 0), umax)
            ELSE IF pd.sup > l - 1 THEN FALSE
            ELSE IF inf >= 0 /\ sup <= l - 1
                 THEN \E gs \in row[sup].gain, gi \in row[inf].gain :
                         FLess(gi, gs)
                 ELSE sup <= l - 1
        move_inf ==
            IF pd.inf < 0 THEN FALSE
            ELSE IF pd.sup > l - 1 THEN TRUE
            ELSE inf >= 0
    IN  IF move_sup THEN [best_gain |-> {sup}, inf |-> inf, sup |-> sup + 1]
        ELSE IF move_inf
             THEN [best_gain |-> {inf}, inf |-> inf - 1, sup |-> sup]
        ELSE [best_gain |-> {}, inf |-> inf, sup |-> sup]

\* the loop of find_move (lines 704-718): the moves whose imbalance is
\* computed, in order
RECURSIVE computed_moves(_, _, _, _)
computed_moves(g, d, pd, acc) ==
    IF pd.best_gain = {} THEN acc
    ELSE LET p_src == g.pumax
             p_tgt == 1 - p_src
             row == g.gains[p_tgt][g.cumax]
             cell == row[CHOOSE b \in pd.best_gain : TRUE]
             m == compute_unbal_after_move(cell.index, p_src, p_tgt,
                                           g.unbal, d)
             acc2 == IF cell.gain # {} THEN Append(acc, m) ELSE acc
         IN  IF cell.gain # {} /\ g.cumax = m.cumax THEN acc2
             ELSE computed_moves(g, d,
                      update_positions(row, g.umax, g.cumax, pd), acc2)

\* find_move: the computed move of least umax, the first one among equals
\* (lines 720-733); no move and the current umax if none was computed
find_move(g, d) ==
    LET p_tgt == 1 - g.pumax
        start == g.inflx[p_tgt][g.cumax]
        cm == computed_moves(g, d, [best_gain |-> {start}, inf |-> start - 1,
                                    sup |-> start + 1], << >>)
    IN  IF cm = << >>
        THEN [index |-> {}, umax |-> g.umax, cumax |-> g.cumax,
              pumax |-> g.pumax, unbals |-> g.unbal]
        ELSE cm[Min({k \in DOMAIN cm :
                        \A j \in DOMAIN cm : ~ FLess(cm[j].umax, cm[k].umax)})]

\* update_gains (lines 735-777) for one row gains[p][c]
update_gains_row(row, inflx, p, c, prt, old_unbal, unbal, umax) ==
    LET old_u == old_unbal[p][c]
        new_u == unbal[p][c]
        thr2 == FMin(old_u, new_u)
        umax_old == FMax({old_unbal[q][d] : q \in {0, 1}, d \in Crits})
        Light(j) == FLess(Fl(2 * wnorm(row[j].index, c), 0), thr2)
        Heavy(j) == FLess(umax_old, Fl(wnorm(row[j].index, c), 0))
        down == IF FLess(old_u, F0) \/ FLess(new_u, F0)
                THEN {j \in 0 .. (inflx - 1) :
                        \A k \in j .. (inflx - 1) : ~ Light(k)}
                ELSE {}
        up == {j \in inflx .. (nbr_n - 1) : \A k \in inflx .. j : ~ Heavy(k)}
    IN  [pos \in Positions |->
            IF pos \in down \cup up
            THEN give_gain(row[pos].index, c, p, prt, unbal, umax)
            ELSE row[pos]]

\* lines 768-777: the first position of greatest gain, 0 if all are None
best_pos(row) ==
    LET G == {j \in Positions : row[j].gain # {}}
        g(j) == CHOOSE x \in row[j].gain : TRUE
    IN  IF G = {} THEN 0
        ELSE Min({j \in G : \A k \in G : ~ FLess(g(j), g(k))})

\* move_node (lines 607-626)
move_node(g, prt, index, mv) ==
    LET p_src == g.pumax
        p_tgt == 1 - p_src
        new_prt == [prt EXCEPT ![index] = p_tgt]
        cells == [q \in {0, 1} |-> [c \in Crits |-> [pos \in Positions |->
                    IF pos # wposn(c, index) THEN g.gains[q][c][pos]
                    ELSE IF q = p_tgt THEN [index |-> index, gain |-> {}]
                    ELSE [index |-> index,
                          gain |-> {FNeg(x) : x \in
                                      compute_gain(index, c, p_src,
                                                   mv.unbals, mv.umax)}]]]]
        rows == [q \in {0, 1} |-> [c \in Crits |->
                    update_gains_row(cells[q][c], g.inflx[q][c], q, c,
                                     new_prt, g.unbal, mv.unbals, mv.umax)]]
    IN  [g EXCEPT !.unbal = mv.unbals, !.umax = mv.umax,
                  !.cumax = mv.cumax, !.pumax = mv.pumax,
                  !.gains = rows,
                  !.inflx = [q \in {0, 1} |-> [c \in Crits |->
                                best_pos(rows[q][c])]],
                  !.moves_done = @ + 1]

\* vn_best_part line 807: the gain table is built (KPart.__init__ lines
\* 100-142 with init_unbal and Bipart.init_gains); nbr_p = 2 selects
\* GainTableNumbersBipart
VnBestInit ==
    /\ pc = "init"
    /\ nbr_p = 2
    /\ \E e0 \in InitRoundings({0, 1}) :
          LET unbal == [q \in {0, 1} |-> [c \in Crits |->
                          Fl(init_unbal(parts)[q][c], e0[c][q])]]
              m == update_umax(unbal)
              gains == init_gains_vn(parts, unbal, m.umax)
          IN  vn' = [algo |-> "best", unbal |-> unbal, umax |-> m.umax,
                     cumax |-> m.cumax, pumax |-> m.pumax, gains |-> gains,
                     inflx |-> [q \in {0, 1} |-> [c \in Crits |->
                        init_inflx(gains[q][c], nbr_n - 1).inflx]],
                     moves_done |-> 0]
    /\ pc' = "vnb"
    /\ last' = [op |-> "vn_init", mv |-> NoMove]
    /\ UNCHANGED <<ml, nbr_n, nbr_p, ewgts, nwgts, tolerance, opts, input, parts,
                   gt_obj, recovery, locks, stats, pass>>

\* one round of the loop of lines 810-821 that ends it
VnBestStop ==
    /\ pc = "vnb"
    /\ \E d \in Roundings : ~ FLess(find_move(vn, d).umax, vn.umax)
    /\ pc' = "done"
    /\ last' = [op |-> "vn_stop", mv |-> NoMove]
    /\ UNCHANGED <<conf, parts, gt_obj, recovery, locks, stats, pass>>

\* one round of the loop of lines 810-821 that moves a vertex
VnBestMove ==
    /\ pc = "vnb"
    /\ \E d \in Roundings :
          LET mv == find_move(vn, d)
          IN  /\ FLess(mv.umax, vn.umax)
              /\ \E index \in mv.index :
                    /\ parts' = [parts EXCEPT ![index] = 1 - vn.pumax]
                    /\ vn' = move_node(vn, parts, index, mv)
                    /\ last' = [op |-> "vn_move",
                                mv |-> [NoMove EXCEPT !.i = index]]
    /\ pc' = "vnb"
    /\ UNCHANGED <<ml, nbr_n, nbr_p, ewgts, nwgts, tolerance, opts, input,
                   gt_obj, recovery, locks, stats, pass>>

\* the four vertices of weights 4, 3, 2, 1 (one criterion), any bipartition
InitFourThreeTwoOne ==
    /\ nwgts = [weights |-> [i \in 0 .. 3 |-> [c \in {0} |-> 4 - i]],
                totals |-> [c \in {0} |-> 10]]
    /\ Inputs(2, 4, {0}, {0}, {1, 2, 3, 4})

\* the partitions the VN refiners are called on for one criterion: up to
\* three vertices of weight 1 or 2 in two parts, three such vertices in
\* three parts with vertex 0 in part 0, and the weights 4, 3, 2, 1
InitVN ==
    /\ tolerance = [num |-> 0, den |-> 1]
    /\ opts = [break_ties |-> "last",
               stop_inner |-> [algo |-> "all_locked", nbr_moves |-> 1]]
    /\ \/ \E n \in Sizes : Inputs(2, n, {0}, {0}, {1, 2})
       \/ Inputs(3, 3, {0}, {0}, {1, 2}) /\ input[0] = 0
       \/ InitFourThreeTwoOne

\* the bipartitions vn_best_part and vn_first_part are called on for one
\* and for two criteria: up to three vertices of weight 1 or 2 for one
\* criterion, three vertices of weights 1 or 2 for two criteria, and the
\* weights 4, 3, 2, 1
InitVNCriteria ==
    /\ tolerance = [num |-> 0, den |-> 1]
    /\ opts = [break_ties |-> "last",
               stop_inner |-> [algo |-> "all_locked", nbr_moves |-> 1]]
    /\ \/ \E n \in Sizes : Inputs(2, n, {0}, {0}, {1, 2})
       \/ Inputs(2, 3, {0, 1}, {0}, {1, 2})
       \/ InitFourThreeTwoOne

\* the four vertices of weights 1, 1, 1, 5 (one criterion), any bipartition
InitOneOneOneFive ==
    /\ tolerance = [num |-> 0, den |-> 1]
    /\ opts = [break_ties |-> "last",
               stop_inner |-> [algo |-> "all_locked", nbr_moves |-> 1]]
    /\ nwgts = [weights |-> [i \in 0 .. 3 |-> [c \in {0} |->
                                IF i = 3 THEN 5 ELSE 1]],
                totals |-> [c \in {0} |-> 8]]
    /\ Inputs(2, 4, {0}, {0}, {1, 5})

NextVN ==
    \/ VnFirstInit
    \/ VnFirstIter
    \/ VnBestInit
    \/ VnBestStop
    \/ VnBestMove

SpecVN == InitVN /\ [][NextVN]_vars

SpecVNCriteria == InitVNCriteria /\ [][NextVN]_vars

SpecVNHeavy == InitOneOneOneFive /\ [][NextVN]_vars

\* the targets matrices vn_best_part is called with: for one criterion and
\* two parts, a quarter and three quarters either way, and two quarters each
Targets ==
    {[num |-> [c \in {0} |-> [q \in {0, 1} |-> IF q = 0 THEN a ELSE 4 - a]],
      den |-> 4] : a \in 1 .. 3}

\* vn_best_part called with a targets matrix on up to three vertices of
\* weight 1 or 2
InitTargets ==
    /\ tolerance = [num |-> 0, den |-> 1]
    /\ opts \in [targets : Targets]
    /\ \E n \in Sizes : Inputs(2, n, {0}, {0}, {1, 2})

NextVnBest ==
    \/ VnBestInit
    \/ VnBestStop
    \/ VnBestMove

SpecTargets == InitTargets /\ [][NextVnBest]_vars

\* ====================================================== VN refiners: claims

\* a step of a VN refiner that applies a move
VnMoveStep ==
    /\ pc \in {"vnf", "vnb"}
    /\ vn'.moves_done = vn.moves_done + 1

\* C18: every move applied by vn_first_part or vn_best_part strictly
\* decreases the aggregate imbalance, the max over (c,p) of imb[c][p] of
\* the partition: its value after the move is less than before the move.
C18_VnMoveLowersImbalance ==
    [][VnMoveStep => aggregate(parts') < aggregate(parts)]_vars

\* the vertices whose move to the other part strictly lowers the aggregate
\* imbalance of bipartition p
improving(p) ==
    {i \in Nodes : aggregate([p EXCEPT ![i] = 1 - p[i]]) < aggregate(p)}

\* C19: for nbr_p = 2 and one or two criteria, vn_best_part returns only
\* when no move of a single vertex to the other part yields a strictly
\* smaller aggregate imbalance; a round of its loop started while such a
\* move exists applies a move.
C19_VnBestStopsAtLocalOptimum ==
    /\ [](pc = "done" /\ vn.algo = "best" => improving(parts) = {})
    /\ [][pc = "vnb" /\ improving(parts) # {} => VnMoveStep]_vars

\* vn_best_part has returned after two moves on weights of two criteria
C19_Witness ==
    /\ pc = "done" /\ vn.algo = "best"
    /\ NbrC = 2
    /\ vn.moves_done = 2
    /\ improving(input) # {}

\* vn_best_part runs on the 4 vertices of weights 4, 3, 2, 1 (normalized
\* 0.4, 0.3, 0.2, 0.1), nbr_p = 2, started on [0,0,0,0]
FourThreeTwoOneRun ==
    /\ pc # "init"
    /\ vn.algo = "best"
    /\ nbr_n = 4 /\ nbr_p = 2 /\ NbrC = 1
    /\ \A i \in Nodes : nwgts.weights[i][0] = 4 - i
    /\ \A i \in Nodes : input[i] = 0

\* the weight of part q for criterion 0
part_weight(q) ==
    SumNodes([i \in Nodes |-> IF parts[i] = q THEN nwgts.weights[i][0] ELSE 0])

\* C20: on 4 vertices of weights 4:3:2:1 (one criterion), nbr_p = 2,
\* initial parts [0,0,0,0], vn_best_part terminates (every round of its
\* loop either returns or lowers the umax it tracks, which is never
\* negative), and it returns with both parts of normalized weight 0.5,
\* that is, with aggregate imbalance 0.
C20_FourThreeTwoOneIsBalanced ==
    /\ [](FourThreeTwoOneRun /\ pc = "done" =>
             /\ aggregate(parts) = 0
             /\ 2 * part_weight(0) = nwgts.totals[0]
             /\ 2 * part_weight(1) = nwgts.totals[0])
    /\ [](FourThreeTwoOneRun => ~ FLess(vn.umax, Fl(0, -1)))
    /\ [][FourThreeTwoOneRun /\ pc = "vnb" =>
             pc' = "done" \/ FLess(vn'.umax, vn.umax)]_vars

\* the run has returned after moving two vertices
C20_Witness ==
    /\ FourThreeTwoOneRun /\ pc = "done"
    /\ vn.moves_done = 2
    /\ parts = [i \in Nodes |-> IF i \in {0, 3} THEN 1 ELSE 0]

\* the gain table of vn_best_part exists (built, and between two rounds of
\* the loop or after it)
VnBestTable == pc \in {"vnb", "done"} /\ vn.algo = "best"

\* the positions of gains[q][c] whose gain is not None
not_none(q, c) == {j \in Positions : vn.gains[q][c][j].gain # {}}

gain_at(q, c, j) == CHOOSE g \in vn.gains[q][c][j].gain : TRUE

\* C21: in the gain table of vn_best_part (nbr_p = 2), after
\* initialisation and after every move, for every part p and criterion c
\* where gains[p][c] has an entry that is not None, inflx[p][c] is the
\* position of an entry that is not None and whose gain is the greatest.
C21_InflxPointsAtMaxGain ==
    VnBestTable =>
        \A q \in {0, 1}, c \in Crits :
            not_none(q, c) # {} =>
                /\ vn.inflx[q][c] \in not_none(q, c)
                /\ \A j \in not_none(q, c) :
                      ~ FLess(gain_at(q, c, vn.inflx[q][c]), gain_at(q, c, j))

\* vn_first_part has returned
VnFirstDone == pc = "done" /\ vn.algo = "first"

\* C22: vn_first_part (default options, stop_after = nbr_n) returns only
\* when the number of vertices tested since the last accepted move (or
\* since the start) exceeds nbr_n, and so never before every vertex, the
\* last moved one excepted, has been tested since that move.
C22_VnFirstStopsOnBudget ==
    VnFirstDone =>
        /\ vn.moves_tslm > nbr_n
        /\ Nodes \ vn.tested \subseteq
              (IF vn.moves_done > 0 THEN {vn.end} ELSE {})

\* the target parts, other than its own, to which the move of vertex i
\* strictly lowers the aggregate imbalance of the partition
lowering_targets(i) ==
    {q \in Parts \ {parts[i]} :
        aggregate([parts EXCEPT ![i] = q]) < aggregate(parts)}

\* a step of vn_first_part that tests a vertex and leaves it where it is
VnTestStep ==
    /\ pc = "vnf"
    /\ vn'.moves_tslm = vn.moves_tslm + 1

\* C23: for each vertex vn_first_part tests, the target parts tried cover
\* every part other than the current part of the vertex, and the vertex
\* is left unmoved only if no target part strictly lowers the aggregate
\* imbalance.
C23_VnFirstTriesEveryOtherPart ==
    /\ [](pc = "vnf" =>
             LET seq == iter_parts(parts[vn.i], vn.last_p_tgt)
             IN  Parts \ {parts[vn.i]} \subseteq {seq[k] : k \in DOMAIN seq})
    /\ [][VnTestStep => lowering_targets(vn.i) = {}]_vars


\* =========================================================================
\* Part 3: the multilevel operators (operators/aggregate.py, coarsen.py,
\* prolong.py) and the coarsening of the models (models/graph.py,
\* nweights.py, eweights.py).  A graph is the record of the code: nodes[i]
\* holds the two lists of vertex i (its neighbours and its edges), edges
\* the list of the end pairs; an edge id e is the (0-based) index of the
\* code, and the lists being 1-based here, edge e is edges[e + 1].
\* =========================================================================

\* the greatest number of coarsening levels explored
MaxLevels == 2

\* the sizes of the finest graph
SizesML == 1 .. 4

\* the weights of the n vertices, or of the n edges, of the finest graph,
\* numbered from first on: unit weights (init_NWeights_unit,
\* init_EWeights_unit) when distinct is 0, the weights 1, 2, ... when it
\* is 1
WeightsML(first, n, distinct) ==
    [i \in first .. (first + n - 1) |-> 1 + distinct * (i - first)]

RangeOf(s) == {s[k] : k \in DOMAIN s}

RECURSIVE SumSeq(_)
SumSeq(s) == IF s = <<>> THEN 0 ELSE s[1] + SumSeq(Tail(s))

\* ------------------------------------------------------- models/graph.py
\* the graph a loader builds from a list of edges (init_Graph_from_mtx,
\* lines 291-313): each edge is appended to the lists of its two ends
RECURSIVE init_Graph_nodes(_, _, _)
init_Graph_nodes(n, edges, k) ==
    IF k = 0
    THEN [i \in 0 .. (n - 1) |-> [ngbrs |-> <<>>, edges |-> <<>>]]
    ELSE LET nodes == init_Graph_nodes(n, edges, k - 1)
             i == edges[k][1]
             j == edges[k][2]
         IN  [nodes EXCEPT
                 ![i] = [ngbrs |-> Append(@.ngbrs, j),
                         edges |-> Append(@.edges, k - 1)],
                 ![j] = [ngbrs |-> Append(@.ngbrs, i),
                         edges |-> Append(@.edges, k - 1)]]

init_Graph(n, edges) ==
    [entity |-> "graph", nbr_n |-> n, nbr_e |-> Len(edges),
     nodes |-> init_Graph_nodes(n, edges, Len(edges)), edges |-> edges]

\* ------------------------------------------------- operators/aggregate.py
\* match_first with the identity order (no "indexes") and no restriction
\* (allowed is constantly True): the matching after the vertices from i on
\* have been visited, matching being the function of the matched vertices
\* match_first_loop taking the first neighbour whether matched or not
RECURSIVE match_first_loop_any(_, _, _, _)
match_first_loop_any(graph, i, matching, n_) ==
    IF i = graph.nbr_n THEN matching
    ELSE IF i \in DOMAIN matching
    THEN match_first_loop_any(graph, i + 1, matching, n_)
    ELSE LET ngbrs == graph.nodes[i].ngbrs
             m1 == IF ngbrs = <<>> THEN matching
                   ELSE (ngbrs[1] :> n_) @@ matching
         IN  match_first_loop_any(graph, i + 1, (i :> n_) @@ m1, n_ + 1)

\* match_first_loop taking the last unmatched neighbour
RECURSIVE match_first_loop_last(_, _, _, _)
match_first_loop_last(graph, i, matching, n_) ==
    IF i = graph.nbr_n THEN matching
    ELSE IF i \in DOMAIN matching
    THEN match_first_loop_last(graph, i + 1, matching, n_)
    ELSE LET ngbrs == graph.nodes[i].ngbrs
             free == {k \in DOMAIN ngbrs : ngbrs[k] \notin DOMAIN matching}
             m1 == IF free = {} THEN matching
                   ELSE (ngbrs[Max(free)] :> n_) @@ matching
         IN  match_first_loop_last(graph, i + 1, (i :> n_) @@ m1, n_ + 1)

RECURSIVE match_first_loop(_, _, _, _)
match_first_loop(graph, i, matching, n_) ==
    IF i = graph.nbr_n THEN matching
    ELSE IF i \in DOMAIN matching
    THEN match_first_loop(graph, i + 1, matching, n_)
    ELSE LET ngbrs == graph.nodes[i].ngbrs
             free == {k \in DOMAIN ngbrs : ngbrs[k] \notin DOMAIN matching}
             m1 == IF free = {} THEN matching
                   ELSE (ngbrs[Min(free)] :> n_) @@ matching
         IN  match_first_loop(graph, i + 1, (i :> n_) @@ m1, n_ + 1)

match_first(graph) == match_first_loop(graph, 0, <<>>, 0)

\* ------------------------------------------------------- models/graph.py
\* coarsen_Graph_loop looking for i in the list of i instead of that of j
RECURSIVE coarsen_Graph_loop_own_list(_, _, _, _)
coarsen_Graph_loop_own_list(edges, aggregation, nbr_n_, k) ==
    IF k = 0
    THEN [nodes |-> [i \in 0 .. (nbr_n_ - 1) |->
                        [ngbrs |-> <<>>, edges |-> <<>>]],
          edges |-> <<>>]
    ELSE LET g == coarsen_Graph_loop_own_list(edges, aggregation, nbr_n_,
                                              k - 1)
             i == aggregation[edges[k][1]]
             j == aggregation[edges[k][2]]
             nbr_e_ == Len(g.edges)
         IN  IF i # j /\ i \notin RangeOf(g.nodes[i].ngbrs)
             THEN [nodes |-> [g.nodes EXCEPT
                                 ![i] = [ngbrs |-> Append(@.ngbrs, j),
                                         edges |-> Append(@.edges, nbr_e_)],
                                 ![j] = [ngbrs |-> Append(@.ngbrs, i),
                                         edges |-> Append(@.edges, nbr_e_)]],
                   edges |-> Append(g.edges, <<i, j>>)]
             ELSE g

\* coarsen_Graph: the lists of the coarse graph after the first k edges
RECURSIVE coarsen_Graph_loop(_, _, _, _)
coarsen_Graph_loop(edges, aggregation, nbr_n_, k) ==
    IF k = 0
    THEN [nodes |-> [i \in 0 .. (nbr_n_ - 1) |->
                        [ngbrs |-> <<>>, edges |-> <<>>]],
          edges |-> <<>>]
    ELSE LET g == coarsen_Graph_loop(edges, aggregation, nbr_n_, k - 1)
             i == aggregation[edges[k][1]]
             j == aggregation[edges[k][2]]
             nbr_e_ == Len(g.edges)
         IN  IF i # j /\ i \notin RangeOf(g.nodes[j].ngbrs)
             THEN [nodes |-> [g.nodes EXCEPT
                                 ![i] = [ngbrs |-> Append(@.ngbrs, j),
                                         edges |-> Append(@.edges, nbr_e_)],
                                 ![j] = [ngbrs |-> Append(@.ngbrs, i),
                                         edges |-> Append(@.edges, nbr_e_)]],
                   edges |-> Append(g.edges, <<i, j>>)]
             ELSE g

coarsen_Graph(graph, aggregation) ==
    LET nbr_n_ == Max(RangeOf(aggregation)) + 1
        g == coarsen_Graph_loop(graph.edges, aggregation, nbr_n_,
                                Len(graph.edges))
    IN  [entity |-> "graph", nbr_n |-> nbr_n_, nbr_e |-> Len(g.edges),
         nodes |-> g.nodes, edges |-> g.edges]

\* ---------------------------------------------------- models/nweights.py
\* coarsen_NWeights storing a fine weight where it should add it
coarsen_NWeights_overwrite(nweights, aggregation) ==
    LET nbr_n_ == Cardinality({aggregation[i] : i \in DOMAIN aggregation})
    IN  [nbr_n |-> nbr_n_,
         weights |-> [i_ \in 0 .. (nbr_n_ - 1) |->
                        nweights.weights[
                           Max({i \in DOMAIN aggregation :
                                   aggregation[i] = i_})]],
         totals |-> nweights.totals]

\* coarsen_NWeights: the weights are summed per coarse vertex, the totals
\* are those of the fine level
coarsen_NWeights(nweights, aggregation) ==
    LET nbr_n_ == Cardinality(RangeOf(aggregation))
        n == nweights.nbr_n
    IN  [nbr_n |-> nbr_n_,
         weights |-> [i_ \in 0 .. (nbr_n_ - 1) |->
                        [c \in DOMAIN nweights.totals |->
                           SumTo([i \in 0 .. (n - 1) |->
                                     IF aggregation[i] = i_
                                     THEN nweights.weights[i][c] ELSE 0],
                                 n - 1)]],
         totals |-> nweights.totals]

\* ---------------------------------------------------- models/eweights.py
\* coarse_edge taking the place of j in the list of neighbours for the edge
coarse_edge_position(nodes_, i, j) ==
    Min({f \in DOMAIN nodes_[i].ngbrs : nodes_[i].ngbrs[f] = j}) - 1

\* the coarse edge the code finds for the coarse ends i and j (lines
\* 142-144): the edge that stands, in the lists of i, where j first does
coarse_edge(nodes_, i, j) ==
    nodes_[i].edges[Min({f \in DOMAIN nodes_[i].ngbrs :
                            nodes_[i].ngbrs[f] = j})]

\* a coarsening of the edge weights in which the last fine edge of a coarse
\* edge overwrites the weight instead of adding to it
coarsen_EWeights_overwrite(eweights, graph, c_graph, aggregation) ==
    LET edges == graph.edges
        into(e, e_) ==
            LET i == aggregation[edges[e][1]]
                j == aggregation[edges[e][2]]
            IN  i # j /\ coarse_edge(c_graph.nodes, i, j) = e_
    IN  [nbr_n |-> c_graph.nbr_e,
         weights |-> [e_ \in 1 .. c_graph.nbr_e |->
                        [c \in DOMAIN eweights.totals |->
                           LET from == {e \in DOMAIN edges : into(e, e_ - 1)}
                           IN  IF from = {} THEN 0
                               ELSE eweights.weights[Max(from)][c]]],
         totals |-> eweights.totals]

\* coarsen_EWeights: each fine edge between two aggregates adds its weight
\* to its coarse edge; the totals are those of the fine level
coarsen_EWeights(eweights, graph, c_graph, aggregation) ==
    LET edges == graph.edges
        into(e, e_) ==
            LET i == aggregation[edges[e][1]]
                j == aggregation[edges[e][2]]
            IN  i # j /\ coarse_edge(c_graph.nodes, i, j) = e_
    IN  [nbr_n |-> c_graph.nbr_e,
         weights |-> [e_ \in 1 .. c_graph.nbr_e |->
                        [c \in DOMAIN eweights.totals |->
                           SumSeq([e \in DOMAIN edges |->
                                      IF into(e, e_ - 1)
                                      THEN eweights.weights[e][c] ELSE 0])]],
         totals |-> eweights.totals]

\* --------------------------------------------------- operators/coarsen.py
\* coarsen_models: the topology first, then the weights; the partition of
\* the fine level is not coarsened
coarsen_models(models, aggregation) ==
    LET c_graph == coarsen_Graph(models.graph, aggregation)
    IN  [graph |-> c_graph,
         nweights |-> coarsen_NWeights(models.nweights, aggregation),
         eweights |-> coarsen_EWeights(models.eweights, models.graph,
                                       c_graph, aggregation),
         partition |-> {}]

Top(s) == s[Len(s)]

\* a pop that leaves the list as it is
PopNothing(s) == s

Pop(s) == SubSeq(s, 1, Len(s) - 1)

\* coarsen_one_level with aggregate.algo = "match_first", no order and no
\* restrictions
CoarsenOneLevel ==
    /\ pc = "ml"
    /\ Len(l_aggr) < MaxLevels
    /\ LET models == Top(l_models)
           aggregation == match_first(models.graph)
       IN  /\ l_aggr' = Append(l_aggr, aggregation)
           /\ l_models' = Append(l_models, coarsen_models(models, aggregation))
           /\ records' = [levels |-> Append(records.levels,
                                            Top(records.levels) - 1)]
           /\ last' = [op |-> "coarsen", aggr |-> aggregation, parts |-> <<>>]
    /\ UNCHANGED <<nbr_n, nbr_p, ewgts, nwgts, tolerance, opts, input, parts,
                   gt_obj, recovery, locks, stats, vn, pc, pass>>

\* ---------------------------------------------------- models/partition.py
init_Partition_from_args(k, prts) ==
    [nbr_n |-> Cardinality(DOMAIN prts), nbr_p |-> k, parts |-> prts]

\* the partitions an initial partitioner gives n vertices: any partition
\* of a graph of fewer vertices than the two largest sizes; of the others,
\* those that put all the vertices in one part or split them by parity
PartitionsML(n) ==
    {prts \in [0 .. (n - 1) -> Parts] :
        \/ n < Max(SizesML) - 1
        \/ \A i \in 0 .. (n - 1) : prts[i] = prts[0]
        \/ \A i \in 0 .. (n - 1) : prts[i] = (prts[0] + i) % nbr_p}

\* an initial partitioner stores a partition of the current level
InitPartitionFromArgs ==
    /\ pc = "ml"
    /\ \E prts \in PartitionsML(Top(l_models).graph.nbr_n) :
          /\ l_models' = [l_models EXCEPT ![Len(l_models)].partition =
                             {init_Partition_from_args(nbr_p, prts)}]
          /\ last' = [op |-> "partition", aggr |-> <<>>, parts |-> prts]
    /\ UNCHANGED <<nbr_n, nbr_p, ewgts, nwgts, tolerance, opts, input, parts,
                   gt_obj, recovery, locks, stats, vn, pc, pass, l_aggr,
                   records>>

\* ----------------------------------- algos/direct_algos/all_in_one_part.py
\* the values of the argument "part", which the code does not check: the
\* parts and one integer that is no part
PartArgs == 0 .. nbr_p

AllInOnePart ==
    /\ pc = "ml"
    /\ \E part \in PartArgs :
          LET prts == [i \in 0 .. (Top(l_models).graph.nbr_n - 1) |-> part]
          IN  /\ l_models' = [l_models EXCEPT ![Len(l_models)].partition =
                                 {init_Partition_from_args(nbr_p, prts)}]
              /\ last' = [op |-> "partition", aggr |-> <<>>, parts |-> prts]
    /\ UNCHANGED <<nbr_n, nbr_p, ewgts, nwgts, tolerance, opts, input, parts,
                   gt_obj, recovery, locks, stats, vn, pc, pass, l_aggr,
                   records>>

\* --------------------------------------------------- operators/prolong.py
\* prolong_parts reading the aggregation one vertex too far
prolong_parts_shifted(c_parts, aggr, n) ==
    [i \in 0 .. (n - 1) |-> c_parts[aggr[(i + 1) % n]]]

\* the partition prolong_same_part gives the fine level (line 38)
prolong_parts(c_parts, aggr, n) == [i \in 0 .. (n - 1) |-> c_parts[aggr[i]]]

\* prolong_same_part on a stack whose coarsest level has a partition
ProlongSamePart ==
    /\ pc = "ml"
    /\ l_aggr # <<>>
    /\ Top(l_models).partition # {}
    /\ LET aggr == Top(l_aggr)
           c_partition == CHOOSE x \in Top(l_models).partition : TRUE
           f_models == l_models[Len(l_models) - 1]
           prts == prolong_parts(c_partition.parts, aggr,
                                 f_models.graph.nbr_n)
       IN  /\ l_aggr' = Pop(l_aggr)
           /\ l_models' = [Pop(l_models) EXCEPT ![Len(l_models) - 1].partition
                              = {init_Partition_from_args(c_partition.nbr_p,
                                                          prts)}]
           /\ records' = [levels |-> Pop(records.levels)]
           /\ last' = [op |-> "prolong", aggr |-> aggr,
                       parts |-> c_partition.parts]
    /\ UNCHANGED <<nbr_n, nbr_p, ewgts, nwgts, tolerance, opts, input, parts,
                   gt_obj, recovery, locks, stats, vn, pc, pass>>

\* prolong_same_part on a stack whose coarsest level has no partition: the
\* two stacks are popped (lines 27-28) before line 29 raises KeyError
ProlongKeyError ==
    /\ pc = "ml"
    /\ l_aggr # <<>>
    /\ Top(l_models).partition = {}
    /\ l_aggr' = Pop(l_aggr)
    /\ l_models' = Pop(l_models)
    /\ pc' = "error"
    /\ last' = [op |-> "prolong_error", aggr |-> Top(l_aggr), parts |-> <<>>]
    /\ UNCHANGED <<nbr_n, nbr_p, ewgts, nwgts, tolerance, opts, input, parts,
                   gt_obj, recovery, locks, stats, vn, pass, records>>

\* prolong_same_part on the finest level: line 27 raises IndexError
ProlongIndexError ==
    /\ pc = "ml"
    /\ l_aggr = <<>>
    /\ pc' = "error"
    /\ last' = [op |-> "prolong_error", aggr |-> <<>>, parts |-> <<>>]
    /\ UNCHANGED <<nbr_n, nbr_p, ewgts, nwgts, tolerance, opts, input, parts,
                   gt_obj, recovery, locks, stats, vn, pass, ml>>

\* the lists of edges a loader reads: the pairs of S in increasing order,
\* the lower end first
RECURSIVE EdgeList(_)
EdgeList(S) ==
    IF S = {} THEN <<>>
    ELSE LET e == CHOOSE x \in S :
                     \A y \in S : x[1] < y[1] \/ (x[1] = y[1] /\ x[2] <= y[2])
         IN  <<e>> \o EdgeList(S \ {e})

\* the same edges in the opposite order, the greater end first (the
\* orientation init_Graph_from_mtx keeps, line 295)
Flipped(edges) ==
    [k \in DOMAIN edges |->
        <<edges[Len(edges) + 1 - k][2], edges[Len(edges) + 1 - k][1]>>]

\* the stack before any coarsening: one level, a graph with its vertex and
\* edge weights (one criterion), no partition; records["levels"] = [0]
InitML ==
    /\ nbr_p = 2
    /\ ewgts = <<>> /\ nwgts = <<>> /\ tolerance = <<>> /\ opts = <<>>
    /\ input = <<>> /\ parts = <<>> /\ gt_obj = {} /\ recovery = {}
    /\ locks = <<>> /\ stats = <<>> /\ vn = <<>> /\ pass = <<>>
    /\ pc = "ml"
    /\ last = [op |-> "call", aggr |-> <<>>, parts |-> <<>>]
    /\ l_aggr = <<>>
    /\ records = [levels |-> <<0>>]
    /\ nbr_n \in SizesML
    /\ \E S \in SUBSET PairsOf(nbr_n) :
       \E edges \in {EdgeList(S), Flipped(EdgeList(S))} :
       \E distinct \in {0, 1} :
          LET nw == WeightsML(0, nbr_n, distinct)
              ew == WeightsML(1, Len(edges), distinct)
          IN
          l_models = <<[graph |-> init_Graph(nbr_n, edges),
                        nweights |->
                           [nbr_n |-> nbr_n,
                            weights |-> [i \in 0 .. (nbr_n - 1) |->
                                            [c \in {0} |-> nw[i]]],
                            totals |-> [c \in {0} |->
                                          SumTo(nw, nbr_n - 1)]],
                        eweights |->
                           [nbr_n |-> Len(edges),
                            weights |-> [e \in 1 .. Len(edges) |->
                                            [c \in {0} |-> ew[e]]],
                            totals |-> [c \in {0} |-> SumSeq(ew)]],
                        partition |-> {}]>>

NextML ==
    \/ CoarsenOneLevel
    \/ InitPartitionFromArgs
    \/ AllInOnePart
    \/ ProlongSamePart
    \/ ProlongKeyError
    \/ ProlongIndexError

SpecML == InitML /\ [][NextML]_vars


\* ------------------------------------------------ the multilevel claims
\* prolong_same_part has just returned
Prolonged == pc = "ml" /\ last.op = "prolong"

\* the partition of the current (coarsest) level
TopPartition == CHOOSE x \in Top(l_models).partition : TRUE

\* C24: after coarsen_one_level (match_first), a partition given to the
\* coarse level and prolong_same_part, the fine level has a partition of
\* its nbr_n vertices in which every fine vertex i has the part the coarse
\* partition gave to aggregation[i], the aggregation being that of
\* match_first on the fine graph; so, when the coarse partition put every
\* vertex in part 0, every fine vertex is in part 0.
C24_ProlongInheritsCoarsePart ==
    Prolonged =>
        LET graph == Top(l_models).graph
            aggregation == match_first(graph)
        IN  /\ Top(l_models).partition # {}
            /\ last.aggr = aggregation
            /\ TopPartition.nbr_n = graph.nbr_n
            /\ DOMAIN TopPartition.parts = 0 .. (graph.nbr_n - 1)
            /\ \A i \in 0 .. (graph.nbr_n - 1) :
                  TopPartition.parts[i] = last.parts[aggregation[i]]
            /\ (\A i_ \in DOMAIN last.parts : last.parts[i_] = 0)
                  => \A i \in 0 .. (graph.nbr_n - 1) :
                        TopPartition.parts[i] = 0

\* a prolongation over a matching that pairs vertices, of a coarse
\* partition with two non-empty parts
C24_Witness ==
    /\ Prolonged
    /\ Top(l_models).graph.nbr_n > Cardinality(RangeOf(last.aggr))
    /\ Cardinality(RangeOf(last.parts)) = 2
    /\ Cardinality(RangeOf(TopPartition.parts)) = 2


\* the sum of f over the set S
RECURSIVE SumOver(_, _)
SumOver(S, f) ==
    IF S = {} THEN 0
    ELSE LET x == CHOOSE y \in S : TRUE IN f[x] + SumOver(S \ {x}, f)

\* coarsen_one_level has just returned
Coarsened == pc = "ml" /\ last.op = "coarsen"

\* the levels of the stack that a coarsening made: level k (k > 1) is the
\* coarsening of level k - 1 by the aggregation l_aggr[k - 1]
CoarseLevels == 2 .. Len(l_models)

\* the fine vertices the aggregation of level k maps to the coarse vertex i_
fibre(k, i_) == {i \in DOMAIN l_aggr[k - 1] : l_aggr[k - 1][i] = i_}

\* the sum, for criterion c, of the vertex weights of level k
mass(k, c) ==
    SumOver(DOMAIN l_models[k].nweights.weights,
            [i \in DOMAIN l_models[k].nweights.weights |->
                l_models[k].nweights.weights[i][c]])

\* C25: when coarsen_one_level returns, at every coarsened level of the
\* stack, each coarse vertex of the coarse graph
\* has for weight the sum of the weights of the fine vertices mapped to
\* it, and for every criterion the coarse vertex weights sum to what the
\* fine ones sum to, hence to what those of the finest level sum to.
C25_VertexMassConserved ==
    Coarsened =>
        \A k \in CoarseLevels :
            LET c_nw == l_models[k].nweights
                f_nw == l_models[k - 1].nweights
            IN  /\ DOMAIN c_nw.weights = 0 .. (l_models[k].graph.nbr_n - 1)
                /\ \A i_ \in DOMAIN c_nw.weights, c \in DOMAIN c_nw.totals :
                      c_nw.weights[i_][c] =
                         SumOver(fibre(k, i_),
                                 [i \in fibre(k, i_) |-> f_nw.weights[i][c]])
                /\ \A c \in DOMAIN c_nw.totals :
                      /\ mass(k, c) = mass(k - 1, c)
                      /\ mass(k, c) = mass(1, c)

\* two successive coarsenings that each merge two vertices of different
\* weights
C25_Witness ==
    /\ Coarsened
    /\ Len(l_models) = 3
    /\ \A k \in CoarseLevels :
          \E i_ \in DOMAIN l_models[k].nweights.weights :
             \E i, j \in fibre(k, i_) :
                l_models[k - 1].nweights.weights[i][0]
                   # l_models[k - 1].nweights.weights[j][0]


\* the sum, for criterion c, of the edge weights of level k
edge_mass(k, c) ==
    SumOver(DOMAIN l_models[k].eweights.weights,
            [e \in DOMAIN l_models[k].eweights.weights |->
                l_models[k].eweights.weights[e][c]])

\* C26: at every level of the stack, for the vertex weights and for the
\* edge weights, totals[c] is the sum over i of weights[i][c].
C26_TotalsAreSums ==
    \A k \in 1 .. Len(l_models) :
        /\ \A c \in DOMAIN l_models[k].nweights.totals :
              l_models[k].nweights.totals[c] = mass(k, c)
        /\ \A c \in DOMAIN l_models[k].eweights.totals :
              l_models[k].eweights.totals[c] = edge_mass(k, c)


\* the fine edges (positions in the edge list of level k - 1) whose ends
\* the aggregation of level k maps to the two coarse vertices a and b
between(k, a, b) ==
    {e \in DOMAIN l_models[k - 1].graph.edges :
        {l_aggr[k - 1][l_models[k - 1].graph.edges[e][1]],
         l_aggr[k - 1][l_models[k - 1].graph.edges[e][2]]} = {a, b}}

\* the sum, for criterion c, of the weights of the edges E of level k
edges_weight(k, E, c) ==
    SumOver(E, [e \in E |-> l_models[k].eweights.weights[e][c]])

\* C27: when coarsen_one_level returns, at every coarsened level of the
\* stack each coarse edge has a weight, which is
\* the sum of the weights of the fine edges whose ends aggregate to its two
\* ends (in either order); the fine edges whose ends aggregate to the same
\* coarse vertex add to no coarse edge, the coarse weights summing to the
\* weights of the fine edges between different aggregates.
C27_CoarseEdgeWeightIsSum ==
    Coarsened =>
        \A k \in CoarseLevels :
            LET c_edges == l_models[k].graph.edges
                c_ew == l_models[k].eweights
                f_edges == l_models[k - 1].graph.edges
                cross == {e \in DOMAIN f_edges :
                             l_aggr[k - 1][f_edges[e][1]]
                                # l_aggr[k - 1][f_edges[e][2]]}
            IN  /\ DOMAIN c_ew.weights = DOMAIN c_edges
                /\ \A e_ \in DOMAIN c_edges, c \in DOMAIN c_ew.totals :
                      c_ew.weights[e_][c] =
                         edges_weight(k - 1,
                                      between(k, c_edges[e_][1], c_edges[e_][2]),
                                      c)
                /\ \A c \in DOMAIN c_ew.totals :
                      edge_mass(k, c) = edges_weight(k - 1, cross, c)

\* a coarsening that merges two fine edges of different weights into one
\* coarse edge and drops a fine edge inside an aggregate
C27_Witness ==
    /\ Coarsened
    /\ \E k \in CoarseLevels :
           /\ \E e_ \in DOMAIN l_models[k].graph.edges :
                 \E e, f \in between(k, l_models[k].graph.edges[e_][1],
                                     l_models[k].graph.edges[e_][2]) :
                    l_models[k - 1].eweights.weights[e][0]
                       # l_models[k - 1].eweights.weights[f][0]
           /\ \E i_ \in 0 .. (l_models[k].graph.nbr_n - 1) :
                 between(k, i_, i_) # {}
           /\ l_models[k].graph.nbr_e > 1


\* vertices i and j of the graph of level k are joined by an edge
adjacent(k, i, j) == j \in RangeOf(l_models[k].graph.nodes[i].ngbrs)

\* C28: when coarsen_one_level returns, the aggregation match_first
\* returned for the graph of a level is defined on its
\* vertices, its values are exactly the integers 0 .. n' - 1 for some n',
\* every coarse id has one or two fine vertices, and two vertices with the
\* same coarse id are adjacent in the fine graph.
C28_MatchFirstIsMatching ==
    Coarsened =>
        \A k \in CoarseLevels :
            LET aggr == l_aggr[k - 1]
                ids == RangeOf(aggr)
            IN  /\ DOMAIN aggr = 0 .. (l_models[k - 1].graph.nbr_n - 1)
                /\ ids = 0 .. (Cardinality(ids) - 1)
                /\ \A i_ \in ids :
                      /\ Cardinality(fibre(k, i_)) \in {1, 2}
                      /\ \A i, j \in fibre(k, i_) :
                            i # j => adjacent(k - 1, i, j)

\* an aggregation with a pair of vertices, a vertex left alone that has a
\* neighbour, and at least three coarse ids
C28_Witness ==
    /\ Coarsened
    /\ \E k \in CoarseLevels :
           /\ \E i_ \in RangeOf(l_aggr[k - 1]) : Cardinality(fibre(k, i_)) = 2
           /\ \E i_ \in RangeOf(l_aggr[k - 1]) :
                 /\ Cardinality(fibre(k, i_)) = 1
                 /\ \A i \in fibre(k, i_) :
                       l_models[k - 1].graph.nodes[i].ngbrs # <<>>
           /\ Cardinality(RangeOf(l_aggr[k - 1])) >= 3


\* the places, in the list of neighbours of vertex i of level k - 1, of
\* the neighbours still unmatched when match_first visits i: the coarse
\* ids being given in the order of the visits, those whose id is not
\* below that of i
unmatched_at_visit(k, i) ==
    LET ngbrs == l_models[k - 1].graph.nodes[i].ngbrs
    IN  {f \in DOMAIN ngbrs : /\ ngbrs[f] # i
                              /\ l_aggr[k - 1][ngbrs[f]] >= l_aggr[k - 1][i]}

\* the vertices match_first finds unmatched when it visits them: the
\* first vertex of each aggregate
visited_unmatched(k) ==
    {i \in DOMAIN l_aggr[k - 1] : i = Min(fibre(k, l_aggr[k - 1][i]))}

places(g, e) ==
    {p \in (0 .. (g.nbr_n - 1)) \X (1 .. g.nbr_e) :
        /\ p[2] \in DOMAIN g.nodes[p[1]].edges
        /\ g.nodes[p[1]].edges[p[2]] = e}

\* C30: when coarsen_one_level returns, the graph of every coarsened
\* level is well formed: no edge joins
\* a vertex to itself, no two edges have the same pair of ends, nbr_e is
\* the number of edges, the lists of each of the nbr_n vertices go by
\* pairs (j, e) where e is an edge whose ends are the vertex and j, and
\* each edge stands exactly twice in the lists.
C30_CoarseGraphWellFormed ==
    Coarsened =>
        \A k \in CoarseLevels :
            LET g == l_models[k].graph
            IN  /\ \A e \in DOMAIN g.edges : g.edges[e][1] # g.edges[e][2]
                /\ \A e, f \in DOMAIN g.edges :
                      e # f => {g.edges[e][1], g.edges[e][2]}
                                  # {g.edges[f][1], g.edges[f][2]}
                /\ g.nbr_e = Len(g.edges)
                /\ DOMAIN g.nodes = 0 .. (g.nbr_n - 1)
                /\ \A i \in DOMAIN g.nodes :
                      /\ Len(g.nodes[i].ngbrs) = Len(g.nodes[i].edges)
                      /\ \A f \in DOMAIN g.nodes[i].ngbrs :
                            /\ g.nodes[i].edges[f] \in 0 .. (g.nbr_e - 1)
                            /\ {g.edges[g.nodes[i].edges[f] + 1][1],
                                g.edges[g.nodes[i].edges[f] + 1][2]}
                                  = {i, g.nodes[i].ngbrs[f]}
                /\ \A e \in 0 .. (g.nbr_e - 1) : Cardinality(places(g, e)) = 2

\* a coarse graph of several edges, made from a fine graph of which one
\* edge fell inside an aggregate and two joined the same two aggregates
C30_Witness ==
    /\ Coarsened
    /\ \E k \in CoarseLevels :
           /\ l_models[k].graph.nbr_e >= 2
           /\ \E i_ \in 0 .. (l_models[k].graph.nbr_n - 1) :
                 between(k, i_, i_) # {}
           /\ \E e_ \in DOMAIN l_models[k].graph.edges :
                 Cardinality(between(k, l_models[k].graph.edges[e_][1],
                                     l_models[k].graph.edges[e_][2])) >= 2


\* =========================================================================
\* Part 4: the cut of a partition on the list representation of the
\* topologies (models/cut.py), for graphs and hypergraphs.  A hypergraph is
\* the record of models/hypergraph.py, of which the cut reads "entity" and
\* "edges": edges[e + 1] is the list of the ends of hyperedge e.
\* =========================================================================

\* hyperedge e (0-based) of a hypergraph of nbr_n vertices can be used as a
\* vertex index: line 58 reads parts[i] where i is the index of the hyperedge
edge_index_in_range(topo, e) == e < topo.nbr_n

\* cut_lambda_minus_one (lines 51-60) on a topology, the weights of its
\* edges and a partition; criterion 0.  The graph branch adds the weights
\* of the edges whose two ends lie in different parts; the other branch
\* multiplies the weight of hyperedge i by the number of its ends whose part
\* is not parts[i]
cut_of(topo, wgts, prts) ==
    IF topo.entity = "graph"
    THEN SumSeq([e \in DOMAIN topo.edges |->
                    IF prts[topo.edges[e][1]] # prts[topo.edges[e][2]]
                    THEN wgts[e][0] ELSE 0])
    ELSE SumSeq([e \in DOMAIN topo.edges |->
                    wgts[e][0]
                       * Cardinality({k \in DOMAIN topo.edges[e] :
                                         prts[topo.edges[e][k]]
                                            # prts[e - 1]})])

\* the calls of cut_lambda_minus_one that return: on a graph all of them,
\* on a hypergraph those where every hyperedge index is a vertex index
cut_returns(topo) ==
    \/ topo.entity = "graph"
    \/ \A e \in DOMAIN topo.edges : edge_index_in_range(topo, e - 1)

\* cut_lambda_minus_one on the models of the current level
CutLambdaMinusOne ==
    /\ pc = "cut"
    /\ cut_returns(Top(l_models).graph)
    /\ pc' = "done"
    /\ last' = [op |-> "cut",
                value |-> cut_of(Top(l_models).graph,
                                 Top(l_models).eweights.weights,
                                 (CHOOSE x \in Top(l_models).partition :
                                     TRUE).parts)]
    /\ UNCHANGED <<nbr_n, nbr_p, ewgts, nwgts, tolerance, opts, input, parts,
                   gt_obj, recovery, locks, stats, vn, pass, ml>>

\* line 58 raises IndexError: a hyperedge index is no vertex index
CutIndexError ==
    /\ pc = "cut"
    /\ ~ cut_returns(Top(l_models).graph)
    /\ pc' = "error"
    /\ last' = [op |-> "cut_error", value |-> 0]
    /\ UNCHANGED <<nbr_n, nbr_p, ewgts, nwgts, tolerance, opts, input, parts,
                   gt_obj, recovery, locks, stats, vn, pass, ml>>

\* the increasing list of the vertices of S
RECURSIVE EndList(_)
EndList(S) == IF S = {} THEN <<>> ELSE <<Min(S)>> \o EndList(S \ {Min(S)})

\* the lists of one or two hyperedges on n vertices, each a non-empty set
\* of vertices
HyperedgeLists(n) ==
    LET E == {EndList(S) : S \in (SUBSET (0 .. (n - 1))) \ {{}}}
    IN  {<<e>> : e \in E} \cup {<<e, f>> : e \in E, f \in E}

\* the topologies the cut is taken on: the graphs of InitML and the
\* hypergraphs of one or two hyperedges
TopologiesCut(n) ==
    {init_Graph(n, EdgeList(S)) : S \in SUBSET PairsOf(n)}
       \cup {[entity |-> "hypergraph", nbr_n |-> n, nbr_e |-> Len(edges),
              edges |-> edges] : edges \in HyperedgeLists(n)}

\* cut_lambda_minus_one called on a topology of up to four vertices, unit
\* or distinct edge weights, and a partition into three parts
InitCut ==
    /\ nbr_p = 3
    /\ ewgts = <<>> /\ nwgts = <<>> /\ tolerance = <<>> /\ opts = <<>>
    /\ input = <<>> /\ parts = <<>> /\ gt_obj = {} /\ recovery = {}
    /\ locks = <<>> /\ stats = <<>> /\ vn = <<>> /\ pass = <<>>
    /\ pc = "cut"
    /\ last = [op |-> "call", value |-> 0]
    /\ l_aggr = <<>>
    /\ records = [levels |-> <<0>>]
    /\ nbr_n \in SizesML
    /\ \E topo \in TopologiesCut(nbr_n) :
       \E distinct \in {0, 1} :
       \E prts \in [0 .. (nbr_n - 1) -> Parts] :
          LET ew == WeightsML(1, topo.nbr_e, distinct)
          IN  l_models = <<[graph |-> topo,
                            eweights |->
                               [nbr_n |-> topo.nbr_e,
                                weights |-> [e \in 1 .. topo.nbr_e |->
                                                [c \in {0} |-> ew[e]]],
                                totals |-> [c \in {0} |-> SumSeq(ew)]],
                            partition |->
                               {init_Partition_from_args(nbr_p, prts)}]>>

NextCut ==
    \/ CutLambdaMinusOne
    \/ CutIndexError

SpecCut == InitCut /\ [][NextCut]_vars

\* the parts the ends of edge e (1-based place) of the topology occupy
parts_of_edge(topo, prts, e) ==
    {prts[topo.edges[e][k]] : k \in DOMAIN topo.edges[e]}

\* the lambda - 1 cut: the weight of each edge times the number of parts
\* of its ends minus one, summed over the edges
lambda_minus_one(topo, wgts, prts) ==
    SumSeq([e \in DOMAIN topo.edges |->
               wgts[e][0] * (Cardinality(parts_of_edge(topo, prts, e)) - 1)])

\* C31: cut_lambda_minus_one returns, for every graph or hypergraph, edge
\* weights and partition, the sum over the edges of the weight times the
\* number of distinct parts of the ends minus one.
C31_CutIsLambdaMinusOne ==
    /\ pc # "error"
    /\ pc = "done" =>
          last.value = lambda_minus_one(Top(l_models).graph,
                                        Top(l_models).eweights.weights,
                                        TopPartition.parts)


\* the partition of level k is well formed: it has one part per vertex of
\* the topology of the level and every part is in [0, nbr_p)
well_formed(k) ==
    \A P \in l_models[k].partition :
        /\ P.nbr_n = l_models[k].graph.nbr_n
        /\ DOMAIN P.parts = 0 .. (l_models[k].graph.nbr_n - 1)
        /\ \A i \in DOMAIN P.parts : P.parts[i] \in 0 .. (P.nbr_p - 1)

\* C32: after every sequence of operations accepted without error
\* (all_in_one_part with any part argument, the other partitioners,
\* prolong), at every level len(parts) is the nbr_n of the topology and
\* every parts[i] is in [0, nbr_p).
C32_PartitionWellFormed ==
    pc = "ml" => \A k \in 1 .. Len(l_models) : well_formed(k)


\* the topology and the weights of a model set
snapshot(models) ==
    [graph |-> models.graph, nweights |-> models.nweights,
     eweights |-> models.eweights]

\* the first n snapshots of a stack of models
snapshots(stack, n) == [k \in 1 .. n |-> snapshot(stack[k])]

\* a call of coarsen_one_level, of prolong_same_part, that returns
CoarsenStep == pc = "ml" /\ pc' = "ml" /\ last'.op = "coarsen"
ProlongStep == pc = "ml" /\ pc' = "ml" /\ last'.op = "prolong"

\* what one step does to the stacks
StackStep ==
    /\ CoarsenStep =>
         /\ Len(l_models') = Len(l_models) + 1
         /\ Len(l_aggr') = Len(l_aggr) + 1
         /\ SubSeq(l_models', 1, Len(l_models)) = l_models
         /\ SubSeq(l_aggr', 1, Len(l_aggr)) = l_aggr
    /\ ProlongStep =>
         /\ Len(l_models') = Len(l_models) - 1
         /\ Len(l_aggr') = Len(l_aggr) - 1
         /\ l_aggr' = SubSeq(l_aggr, 1, Len(l_aggr'))
         /\ snapshots(l_models', Len(l_models'))
               = snapshots(l_models, Len(l_models'))
    /\ snapshot(l_models'[1]) = snapshot(l_models[1])

popped_models == coarsen_models(Top(l_models), last.aggr)

\* C40: the cut of a coarse partition on the coarse graph with the
\* coarsened edge weights equals the cut, on the fine graph with the fine
\* edge weights, of the partition that prolong_same_part derives from it.
C40_CutPreservedAcrossLevels ==
    Prolonged =>
        cut_of(Top(l_models).graph, Top(l_models).eweights.weights,
               TopPartition.parts)
          = cut_of(popped_models.graph, popped_models.eweights.weights,
                   last.parts)

\* a prolongation of a coarse partition that cuts a coarse edge into which
\* several fine edges were merged
C40_Witness ==
    /\ Prolonged
    /\ popped_models.graph.nbr_e < Top(l_models).graph.nbr_e
    /\ \E e_ \in DOMAIN popped_models.graph.edges :
          /\ last.parts[popped_models.graph.edges[e_][1]]
                # last.parts[popped_models.graph.edges[e_][2]]
          /\ Cardinality({e \in DOMAIN Top(l_models).graph.edges :
                 {last.aggr[Top(l_models).graph.edges[e][1]],
                  last.aggr[Top(l_models).graph.edges[e][2]]}
                    = {popped_models.graph.edges[e_][1],
                       popped_models.graph.edges[e_][2]}}) > 1


\* ================================================ FM refiner: more claims
\* the vertices whose move to the other part the tolerance admits on
\* partition p (can_move on the imbalances of p) and whose cut gain on p is
\* strictly positive
improving_moves(p) ==
    {i \in Nodes :
        /\ can_move(imbalances(p), i, p[i], 1 - p[i])
        /\ gain__cut_lambda_minus_one__graph(p, i, 1 - p[i]) > 0}

\* fm_part has returned from a run with the default stopping rules
DefaultRunDone ==
    /\ pc = "done"
    /\ nbr_p = 2
    /\ opts.stop_inner.algo = "all_locked"

\* C38: when fm_part (bipartition, stop_inner all_locked, stop_outer
\* no_improvement) returns, no vertex has a move that the tolerance admits
\* and whose cut gain on the returned partition is strictly positive.
C38_LocalOptimumAtTermination ==
    DefaultRunDone => improving_moves(parts) = {}


\* the number of places of bucket b that hold vertex i
occurrences(b, i) == Cardinality({x \in 1 .. Len(b) : b[x] = i})

\* C35: after the initialisation and after every move and recovery, every
\* vertex i occurs exactly once in the bucket keyed by its gain
\* gain_nodes[i] and in no other bucket of the live gain table.
C35_BucketsFollowGains ==
    gt_obj # {} =>
        \A i \in Nodes :
            /\ BucketsOf(self, i) = {self.gain_nodes[i]}
            /\ occurrences(self.gain_table[self.gain_nodes[i]], i) = 1

\* a move has changed the gain of neighbours of the moved vertex and the
\* table has buckets of several gains, one of them with several vertices
C35_Witness ==
    /\ gt_obj # {}
    /\ last.op = "move"
    /\ Ngbrs(last.mv.i) # {}
    /\ Cardinality({g \in DOMAIN self.gain_table :
                      self.gain_table[g] # <<>>}) > 1
    /\ \E g \in DOMAIN self.gain_table : Len(self.gain_table[g]) > 1

\* the partition array, the imbalance matrix, the per-vertex gains and the
\* buckets of the live state
live_state ==
    [gain_nodes |-> self.gain_nodes, gain_table |-> self.gain_table,
     imbs |-> self.imbs, parts |-> parts]

\* the same four attributes as the snapshots hold them
snapshots_state == {snapshot_of(r, self, parts) : r \in recovery}

\* C36: a move that takes a snapshot leaves in it the partition array, the
\* imbalance matrix, the per-vertex gains and the buckets of the state
\* before the move; no later move changes them; and a recover_best that
\* restores makes them the live state of the next pass.
C36_SnapshotIsolation ==
    [][/\ (MoveStep /\ last'.mv.rec) => snapshots_state' = {live_state}
       /\ (MoveStep /\ ~ last'.mv.rec) => snapshots_state' = snapshots_state
       /\ (RecoverStep /\ stats.obj_value > stats.best_obj_value
              /\ recovery # {}) =>
             /\ gt_obj' # {}
             /\ {live_state'} = snapshots_state]_vars

\* a snapshot was taken, moves followed, and recover_best has restored it
C36_Witness ==
    /\ last.op = "recover"
    /\ pass.snaps > 0
    /\ Cardinality(pass.moved) > 2
    /\ parts # pass.parts
    /\ recovery = {}
    /\ gt_obj # {}


\* ================================================ VN refiners: more claims
\* a move of vn_best_part has just been applied
VnBestMoved == pc = "vnb" /\ vn.algo = "best" /\ last.op = "vn_move"

\* C37: in the gain table of vn_best_part (nbr_p = 2), after every applied
\* move, the gain stored at every position of gains[p][c] is the gain
\* computed from scratch on the current partition, imbalances and umax:
\* None for a vertex that is in p or whose greatest normalized weight is
\* not below umax, compute_gain otherwise.
C37_StoredGainsAreExact ==
    VnBestMoved =>
        \A q \in {0, 1} : \A c \in Crits : \A pos \in Positions :
            vn.gains[q][c][pos]
              = give_gain(wsort(c, pos), c, q, parts, vn.unbal, vn.umax)


\* C39: for any targets matrix, at the initialisation and after every
\* move, the imbalance table unbal[p][c] of the gain table of vn_best_part
\* has the value of the evaluator's imbalances, nbr_p * (part weight /
\* total - target), computed from scratch on the current partition with
\* the same targets.
C39_UnbalIsTheEvaluatorsImbalance ==
    VnBestTable =>
        \A q \in {0, 1} : \A c \in Crits :
            vn.unbal[q][c].x = imbalances_with_targets(parts)[c][q]


\* ============================== Part 5: the constraints object in floats
(***************************************************************************)
(* ConstraintsImbalance keeps its matrix imbs in Python floats: __init__   *)
(* computes it with imbalances() and moved() updates two cells of every    *)
(* row in place.  Here a cell is a pair [x, e] as in part 2, where e is    *)
(* the sign of the difference between the float the object holds and the   *)
(* float imbalances() computes for the same exact value x.  When every     *)
(* total is a power of two all the values are dyadic and the updates are   *)
(* exact.                                                                  *)
(***************************************************************************)
\* imbalances() on partition p, as floats
imbalances_floats(p) ==
    [c \in Crits |-> [q \in Parts |->
        Fl(imbalances(p)[c][q] * Scale(c), 0)]]

\* the roundings an update of the cells of p_src and p_tgt can produce
UpdateRoundings ==
    IF \A c \in Crits : nwgts.totals[c] \in {1, 2, 4, 8}
    THEN {[c \in Crits |-> [src |-> 0, tgt |-> 0]]}
    ELSE Roundings

\* ConstraintsImbalance.can_move on the float matrix imbs
can_move_floats(imbs, i, p_tgt) ==
    \A c \in Crits :
        LET lhs == tolerance.den * (imbs[c][p_tgt].x + nbr_p * wnorm(i, c))
            rhs == tolerance.num * nwgts.totals[c] * Scale(c)
        IN  lhs < rhs \/ (lhs = rhs /\ imbs[c][p_tgt].e <= 0)

\* ConstraintsImbalance.moved on the float matrix imbs, under roundings d
moved_floats(imbs, i, p_src, p_tgt, d) ==
    [c \in Crits |->
        LET a == [imbs[c] EXCEPT
                    ![p_src] = Fl(@.x - nbr_p * wnorm(i, c), d[c].src)]
        IN  [a EXCEPT ![p_tgt] = Fl(@.x + nbr_p * wnorm(i, c), d[c].tgt)]]

\* ConstraintsImbalance.__init__ on the partition passed in
ConstraintsInit ==
    /\ pc = "init"
    /\ gt_obj' = {[imbs |-> imbalances_floats(parts)]}
    /\ pc' = "cons"
    /\ last' = [op |-> "cons_init", mv |-> NoMove]
    /\ UNCHANGED <<conf, parts, recovery, locks, stats, pass>>

\* a move of the refiner: a vertex i that can_move admits goes to p_tgt
\* and moved(i, p_src, p_tgt) is called
ConstraintsMoved ==
    /\ pc = "cons"
    /\ \E i \in Nodes, p_tgt \in Parts, d \in UpdateRoundings :
          /\ p_tgt # parts[i]
          /\ can_move_floats(self.imbs, i, p_tgt)
          /\ parts' = [parts EXCEPT ![i] = p_tgt]
          /\ gt_obj' = {[imbs |-> moved_floats(self.imbs, i, parts[i],
                                               p_tgt, d)]}
          /\ last' = [op |-> "moved", mv |-> NoMove]
    /\ UNCHANGED <<conf, recovery, locks, stats, pass, pc>>

\* ConstraintsImbalance.copy with copy_Partition: the snapshot a refiner
\* takes before a move
ConstraintsCopy ==
    /\ pc = "cons"
    /\ recovery # {[imbs |-> self.imbs, parts |-> parts]}
    /\ recovery' = {[imbs |-> self.imbs, parts |-> parts]}
    /\ last' = [op |-> "copy", mv |-> NoMove]
    /\ UNCHANGED <<conf, parts, gt_obj, locks, stats, pass, pc>>

\* recover_best, lines 166-171: the snapshot becomes the active state
ConstraintsRecover ==
    /\ pc = "cons"
    /\ recovery # {}
    /\ \E r \in recovery :
          /\ r.parts # parts
          /\ parts' = r.parts
          /\ gt_obj' = {[imbs |-> r.imbs]}
    /\ recovery' = {}
    /\ last' = [op |-> "recover", mv |-> NoMove]
    /\ UNCHANGED <<conf, locks, stats, pass, pc>>

\* the constraints object of the bipartition refiner, on up to three
\* vertices of weight 1, under the tolerances 1/3 and 1
InitConstraints ==
    /\ tolerance \in {[num |-> 1, den |-> 3], [num |-> 1, den |-> 1]}
    /\ opts = [break_ties |-> "last",
               stop_inner |-> [algo |-> "all_locked", nbr_moves |-> 1]]
    /\ \E n \in Sizes : Inputs(NbrP, n, {0}, {0}, {1})

NextConstraints ==
    \/ ConstraintsInit
    \/ ConstraintsMoved
    \/ ConstraintsCopy
    \/ ConstraintsRecover

SpecConstraints == InitConstraints /\ [][NextConstraints]_vars

\* a step that is a call of moved
MovedStep == pc = "cons" /\ last'.op = "moved"

\* C34: after any sequence of moves and recoveries the matrix imbs of the
\* active ConstraintsImbalance object equals the matrix imbalances()
\* computes from scratch on the active partition; a call of moved(i, p_src,
\* p_tgt) changes, in every row c, the entry of p_src by -nbr_p*w[c] and
\* the entry of p_tgt by +nbr_p*w[c], and no other entry.
C34_ImbsAreExact ==
    /\ [](pc = "cons" => self.imbs = imbalances_floats(parts))
    /\ [][MovedStep =>
            LET t == CHOOSE x \in gt_obj : TRUE
                u == CHOOSE x \in gt_obj' : TRUE
                i == CHOOSE j \in Nodes : parts'[j] # parts[j]
            IN  \A c \in Crits : \A q \in Parts :
                   u.imbs[c][q].x
                     = t.imbs[c][q].x
                         + (IF q = parts'[i] THEN nbr_p * wnorm(i, c)
                            ELSE IF q = parts[i] THEN - nbr_p * wnorm(i, c)
                            ELSE 0)]_vars

====
